---- MODULE Spec2Model ----
(***************************************************************************)
(* Model of feature_rollout_simulation/feature_rollout_analysis.py: the    *)
(* hand-rolled Welch t-test, the Student-t CDF by Simpson's rule, and the  *)
(* PNG writer.                                                             *)
(*                                                                         *)
(* Python floats are binary floating point numbers.  They are modelled by  *)
(* the same format scaled down: a significand of Precision bits (53 in     *)
(* the program), round-to-nearest-even after every operation, gradual      *)
(* underflow to zero below 2^-ExpFloor (2^-1074 in the program).  The      *)
(* inputs are kept far below the overflow threshold, so the format has no  *)
(* largest exponent.  A float is the record [m, e] standing for m * 2^e,   *)
(* in canonical form: equal floats are equal records.                      *)
(***************************************************************************)
EXTENDS Integers, Sequences, FiniteSets, TLC

Precision == 12
ExpFloor == 24

Max(a, b) == IF a >= b THEN a ELSE b
Min(a, b) == IF a <= b THEN a ELSE b
Abs(a) == IF a < 0 THEN -a ELSE a
Sgn(a) == IF a < 0 THEN -1 ELSE IF a > 0 THEN 1 ELSE 0
Pow2(k) == 2^k

BL4(n) == IF n < 4 THEN (IF n < 2 THEN n ELSE 2) ELSE (IF n < 8 THEN 3 ELSE 4)
BL8(n) == IF n < 16 THEN BL4(n) ELSE 4 + BL4(n \div 16)
BL16(n) == IF n < 256 THEN BL8(n) ELSE 8 + BL8(n \div 256)
\* number of bits of the natural number n (0 for 0)
BitLen(n) == IF n < 65536 THEN BL16(n) ELSE 16 + BL16(n \div 65536)

Flt(m, e) == [m |-> m, e |-> e]
FZero == Flt(0, -ExpFloor)

\* The float nearest to s * n * 2^e (n >= 0, s = 1 or -1), ties to even.
Round(s, n, e) ==
    LET bl == BitLen(n)
        sh == Max(bl - Precision, (-ExpFloor) - e)
    IN  IF n = 0 THEN FZero
        ELSE IF sh <= 0
        THEN LET k == Min(Precision - bl, e + ExpFloor)
             IN  Flt(s * n * Pow2(k), e - k)
        ELSE IF sh > bl THEN FZero
        ELSE LET q == n \div Pow2(sh)
                 r == n % Pow2(sh)
                 half == Pow2(sh - 1)
                 up == r > half \/ (r = half /\ q % 2 = 1)
                 q1 == IF up THEN q + 1 ELSE q
             IN  IF q1 = 0 THEN FZero
                 ELSE IF q1 = Pow2(Precision) THEN Flt(s * Pow2(Precision - 1), e + sh + 1)
                 ELSE Flt(s * q1, e + sh)

\* float(k) for an int k: exact when k has at most Precision bits
FromInt(k) == Round(IF k < 0 THEN -1 ELSE 1, Abs(k), 0)
\* the float k * 2^e
Dyadic(k, e) == Round(IF k < 0 THEN -1 ELSE 1, Abs(k), e)

\* float("nan"), told from every number by an exponent below the floor; of the
\* functions of the module only _student_t_coeff and _student_t_pdf are given it
FNaN == Flt(1, (-ExpFloor) - 1)
FIsNaN(a) == a.e < -ExpFloor

FNeg(a) == Flt(-a.m, a.e)
FAbs(a) == Flt(Abs(a.m), a.e)
FIsZero(a) == a.m = 0

\* a + b
FAdd(a, b) ==
    IF a.m = 0 THEN b
    ELSE IF b.m = 0 THEN a
    ELSE LET hi == IF a.e >= b.e THEN a ELSE b
             lo == IF a.e >= b.e THEN b ELSE a
             d == hi.e - lo.e
         IN  IF d > Precision + 2 THEN hi
             ELSE LET n == hi.m * Pow2(d) + lo.m
                  IN  Round(IF n < 0 THEN -1 ELSE 1, Abs(n), lo.e)

FSub(a, b) == FAdd(a, FNeg(b))

\* a * b
FMul(a, b) ==
    Round(IF (a.m < 0) = (b.m < 0) THEN 1 ELSE -1, Abs(a.m) * Abs(b.m), a.e + b.e)

\* num / den * 2^e for naturals num, den > 0, rounded once (s is the sign)
RoundRatio(s, num, den, e) ==
    IF num = 0 THEN FZero
    ELSE LET k == 30 - BitLen(num)
             big == num * Pow2(k)
             q == big \div den
             sticky == IF big % den = 0 THEN 0 ELSE 1
         IN  Round(s, 2 * q + sticky, e - k - 1)

\* a / b for b # 0 (the caller raises ZeroDivisionError when b = 0)
FDiv(a, b) ==
    RoundRatio(IF (a.m < 0) = (b.m < 0) THEN 1 ELSE -1, Abs(a.m), Abs(b.m), a.e - b.e)

\* comparisons
FLt(a, b) ==
    IF a.m = 0 THEN b.m > 0
    ELSE IF b.m = 0 THEN a.m < 0
    ELSE IF (a.m < 0) # (b.m < 0) THEN a.m < 0
    ELSE IF a.e = b.e THEN a.m < b.m
    ELSE IF a.m > 0 THEN a.e < b.e ELSE a.e > b.e
FLe(a, b) == a = b \/ FLt(a, b)
\* Python's min(a, b) and max(a, b): the first argument unless the second is smaller (larger)
FMin(a, b) == IF FLt(b, a) THEN b ELSE a
FMax(a, b) == IF FLt(a, b) THEN b ELSE a


(***************************************************************************)
(* The math library (math.sqrt, math.log, math.exp, math.lgamma, float     *)
(* power).  Library code is not part of the repository; it is modelled by  *)
(* what it returns: the rounded value of the function, computed here by    *)
(* integer arithmetic on fixed point numbers with FixScale units per 1.    *)
(* math.log and math.lgamma raise ValueError outside their domain.         *)
(***************************************************************************)
\* fixed point unit, and log(2) in that unit
FixScale == Pow2(14)
FixLn2 == 11357

RECURSIVE ISqrtIter(_, _, _)
ISqrtIter(n, r, bit) ==
    IF bit = 0 THEN r
    ELSE IF (r + bit) * (r + bit) <= n THEN ISqrtIter(n, r + bit, bit \div 2)
    ELSE ISqrtIter(n, r, bit \div 2)
\* floor of the square root of n < 2^30
ISqrt(n) == ISqrtIter(n, 0, 16384)

\* math.sqrt(a) for a >= 0, correctly rounded
math_sqrt(a) ==
    IF a.m = 0 THEN FZero
    ELSE LET bl == BitLen(a.m)
             k == IF (a.e - (30 - bl)) % 2 = 0 THEN 30 - bl ELSE 29 - bl
             n == a.m * Pow2(k)
             s == ISqrt(n)
         IN  Round(1, 2 * s + (IF s * s = n THEN 0 ELSE 1), ((a.e - k) \div 2) - 1)

\* is the float a an integer
FIsInteger(a) == a.m = 0 \/ a.e >= 0 \/ a.m % Pow2(Min(-a.e, 30)) = 0

\* ln(f / FixScale) * FixScale for FixScale <= f < 2 * FixScale
FixLn(f) ==
    LET w == ((f - FixScale) * FixScale) \div (f + FixScale)
        w2 == (w * w) \div FixScale
        p3 == (FixScale \div 5) + (w2 * (FixScale \div 7)) \div FixScale
        p2 == (FixScale \div 3) + (w2 * p3) \div FixScale
        p1 == FixScale + (w2 * p2) \div FixScale
    IN  (2 * w * p1) \div FixScale

\* exp(t / FixScale) * FixScale for 0 <= t < FixLn2
FixExp(t) ==
    LET a6 == FixScale + t \div 6
        a5 == FixScale + (t * a6) \div (5 * FixScale)
        a4 == FixScale + (t * a5) \div (4 * FixScale)
        a3 == FixScale + (t * a4) \div (3 * FixScale)
        a2 == FixScale + (t * a3) \div (2 * FixScale)
    IN  FixScale + (t * a2) \div FixScale

\* math.log(a) for a > 0
math_log(a) ==
    LET bl == BitLen(a.m)
        f == IF bl <= 15 THEN a.m * Pow2(15 - bl) ELSE a.m \div Pow2(bl - 15)
        big == (a.e + bl - 1) * FixLn2 + FixLn(f)
    IN  Round(IF big < 0 THEN -1 ELSE 1, Abs(big), -14)

\* math.exp(v); it underflows to 0.0
math_exp(v) ==
    IF v.m < 0 /\ v.e + BitLen(-v.m) > 6 THEN FZero
    ELSE LET fix == IF v.e >= -14 THEN v.m * Pow2(v.e + 14) ELSE v.m \div Pow2(Min(-14 - v.e, 30))
             i == fix \div FixLn2
             t == fix % FixLn2
         IN  Round(1, FixExp(t), i - 14)

\* base ** y for a float base > 0
float_pow(base, y) == math_exp(FMul(y, math_log(base)))

FOne == FromInt(1)
FHalf == Dyadic(1, -1)
\* 0.5 * log(2 * pi)
HalfLog2Pi == Dyadic(15056, -14)
\* math.pi
math_pi == Dyadic(25736, -13)

RECURSIVE LgammaShift(_, _)
\* lgamma(z) = lgamma(z + 1) - log(z) until Stirling's series applies
LgammaShift(z, acc) ==
    IF FLt(z, FromInt(7)) THEN LgammaShift(FAdd(z, FOne), FSub(acc, math_log(z)))
    ELSE FAdd(acc,
           FAdd(FSub(FMul(FSub(z, FHalf), math_log(z)), z),
                FAdd(HalfLog2Pi, FDiv(FOne, FMul(FromInt(12), z)))))
\* math.lgamma(z) for z > 0
math_lgamma(z) == LgammaShift(z, FZero)
\* math.lgamma raises ValueError at its poles 0, -1, -2, ...
math_lgamma_raises(z) == z.m <= 0 /\ FIsInteger(z)
\* math.log raises ValueError for x <= 0
math_log_raises(x) == x.m <= 0


(***************************************************************************)
(* The Student-t density.                                                  *)
(***************************************************************************)
FTwo == FromInt(2)
FThree == FromInt(3)

\* _student_t_coeff raises ValueError (math domain error) from lgamma or log;
\* for nan neither raises
student_t_coeff_raises(df) ==
    /\ ~FIsNaN(df)
    /\ \/ math_lgamma_raises(FDiv(FAdd(df, FOne), FTwo))
       \/ math_lgamma_raises(FDiv(df, FTwo))
       \/ math_log_raises(df)

\* the body of _student_t_coeff, run on a cache miss; the arithmetic, lgamma,
\* log and exp give nan for nan
student_t_coeff_body(df) ==
    LET lgamma_num == math_lgamma(FDiv(FAdd(df, FOne), FTwo))
        lgamma_den == math_lgamma(FDiv(df, FTwo))
        log_coeff == FSub(FSub(lgamma_num, lgamma_den),
                          FMul(FHalf, FAdd(math_log(df), math_log(math_pi))))
    IN  IF FIsNaN(df) THEN FNaN ELSE math_exp(log_coeff)

\* _student_t_pdf(x, df), given the value coeff that _student_t_coeff(df) returned
student_t_pdf(coeff, x, df) ==
    IF FIsNaN(df) THEN FNaN
    ELSE FMul(coeff, float_pow(FAdd(FOne, FDiv(FMul(x, x), df)),
                               FDiv(FNeg(FAdd(df, FOne)), FTwo)))

(***************************************************************************)
(* The program state.  A caller invokes one function of the module at a    *)
(* time; the interpreter runs it to its return or to an exception.         *)
(***************************************************************************)
VARIABLES
    pc,           \* "idle": no call is running; else the line the running call is at
    entry,        \* the function the caller invoked
    args,         \* its arguments
    stats,        \* the module global stats: "scipy.stats", or "None" if the import failed
    np,           \* the module global np: "numpy", or "None" if the import failed
    pd,           \* the module global pd: "pandas", or "None" if the import failed
    HAS_SEABORN,  \* the module global HAS_SEABORN: seaborn and matplotlib were imported
    threads,      \* the calls of _student_t_coeff that threads are making
    sim,          \* the parameters and locals of simulate_user_metrics
    run,          \* the locals of run_analysis
    welch,        \* the parameters and locals of _manual_welchs_ttest
    frame,        \* the parameters and locals of _student_t_cdf
    coeff_cache,  \* the lru_cache of _student_t_coeff: df -> coefficient
    pdf_calls,    \* how many times the running call has invoked _student_t_pdf
    sink,         \* the output file of _write_png
    png,          \* the locals of _write_png
    canvas,       \* the local canvas of _fallback_plot: a list of lists of pixels
    plot,         \* how far the body of _fallback_plot has come
    draw,         \* the parameters and locals of draw_text
    outcome,      \* how the last call ended: a return value or an exception
    history       \* the calls completed so far, with their outcomes

vars == <<pc, entry, args, stats, np, pd, HAS_SEABORN, threads, sim, run, welch,
          frame, coeff_cache, pdf_calls, sink, png, canvas, plot, draw, outcome,
          history>>
\* the module globals that the imports of lines 15-35 set
imports == <<np, pd, HAS_SEABORN, stats>>
\* the state of the statistics functions and of the image writer
statVars == <<imports, threads, sim, run, welch, frame, coeff_cache, pdf_calls>>
plotVars == <<canvas, plot, draw>>
imageVars == <<sink, png, canvas, plot, draw>>

\* how many calls the caller makes
MaxCalls == 2

Returned(v) == [kind |-> "return", value |-> v]
Raised(e) == [kind |-> "raise", exc |-> e]
NoOutcome == [kind |-> "none"]
NoFrame == [df |-> FZero, sign |-> 0, x |-> FZero, n_intervals |-> 0,
            h |-> FZero, total |-> FZero, i |-> 0]
NoWelch == [sample_a |-> << >>, sample_b |-> << >>, n1 |-> 0, n2 |-> 0,
            mean1 |-> FZero, mean2 |-> FZero, var1 |-> FZero, var2 |-> FZero,
            se |-> FZero, t_stat |-> FZero, numerator |-> FZero,
            denominator |-> FZero, df |-> FZero]
NoRun == [metric |-> 0, pre_mean |-> FZero, post_mean |-> FZero,
          mean_change |-> FZero, p_value |-> FZero, summary_rows |-> << >>]
NoSim == [n_users |-> 0, half |-> 0, idx |-> 0, base_idx |-> 0, records |-> << >>]
NoSink == [opened |-> FALSE, closed |-> FALSE, writes |-> << >>]
NoPng == [height |-> 0, width |-> 0, row |-> 0, raw_data |-> << >>]
NoCanvas == [rows |-> << >>, lists |-> << >>]
NoPlot == [calls |-> 0, y |-> 0, y_stop |-> 0, x_start |-> 0, x_stop |-> 0,
           color |-> << >>]
NoDraw == [text |-> << >>, upper |-> << >>, ch |-> 0, x |-> 0, y |-> 0,
           color |-> << >>]

\* the state once the module is imported; lib is what "from scipy import stats"
\* gave, numpy and pandas what the imports of lines 16 and 21 gave, seaborn
\* whether both imports of lines 26-27 succeeded
InitImports(lib, numpy, pandas, seaborn) ==
    /\ pc = "idle"
    /\ entry = "none"
    /\ args = << >>
    /\ stats = lib
    /\ np = numpy
    /\ pd = pandas
    /\ HAS_SEABORN = seaborn
    /\ threads = << >>
    /\ sim = NoSim
    /\ run = NoRun
    /\ welch = NoWelch
    /\ frame = NoFrame
    /\ coeff_cache = [k \in {} |-> FZero]
    /\ pdf_calls = 0
    /\ sink = NoSink
    /\ png = NoPng
    /\ canvas = NoCanvas
    /\ plot = NoPlot
    /\ draw = NoDraw
    /\ outcome = NoOutcome
    /\ history = << >>
\* the plotting libraries are not installed
InitWith(lib) == InitImports(lib, "None", "None", FALSE)

\* SciPy is not installed
Init == InitWith("None")
\* SciPy is installed or not
InitAnyLibs == \E lib \in {"None", "scipy.stats"} : InitWith(lib)

(***************************************************************************)
(* _student_t_coeff behind functools.lru_cache(maxsize=None): a hit        *)
(* returns the stored value, a miss runs the body and stores what it       *)
(* returns; an exception stores nothing.                                   *)
(***************************************************************************)
\* variant that stores, for a new df, the value the cache holds for another
cache_after_coeff_any_key(cache, df) ==
    IF df \in DOMAIN cache \/ student_t_coeff_raises(df) THEN cache
    ELSE [k \in DOMAIN cache \cup {df} |->
            IF k # df THEN cache[k]
            ELSE IF DOMAIN cache = {} THEN student_t_coeff_body(df)
            ELSE cache[CHOOSE j \in DOMAIN cache : TRUE]]
\* variant that keeps the newest entry alone
cache_after_coeff_newest(cache, df) ==
    IF df \in DOMAIN cache \/ student_t_coeff_raises(df) THEN cache
    ELSE [k \in {df} |-> student_t_coeff_body(df)]
\* the cache after the call _student_t_coeff(df)
cache_after_coeff(cache, df) ==
    IF df \in DOMAIN cache \/ student_t_coeff_raises(df) THEN cache
    ELSE [k \in DOMAIN cache \cup {df} |->
            IF k = df THEN student_t_coeff_body(df) ELSE cache[k]]
\* the call _student_t_coeff(df) raises: a miss whose body raises
coeff_call_raises(cache, df) == df \notin DOMAIN cache /\ student_t_coeff_raises(df)

\* number of Simpson subintervals for |x| = x
SimpsonNear == 1000
SimpsonFar == 2000
SimpsonSplit == 10
n_intervals_for(x) ==
    LET n == IF FLt(x, FromInt(SimpsonSplit)) THEN SimpsonNear ELSE SimpsonFar
    IN  IF n % 2 = 1 THEN n + 1 ELSE n

\* _student_t_cdf: the clamp of its last line
cdf_clamp(cdf) == FMax(FZero, FMin(FOne, cdf))

\* _two_tailed_p_value: its last line, given what _student_t_cdf returned
two_tailed_tail(cdf) ==
    FMax(FMin(FMul(FTwo, FMin(cdf, FSub(FOne, cdf))), FOne), FZero)

(***************************************************************************)
(* How a call ends.  No function of the module catches an exception, so an *)
(* exception ends the invoked function; a return goes to the caller, which *)
(* is the invoked function's own caller or a function of the module.       *)
(***************************************************************************)
\* the invoked function ends with outcome out
Finish(out) ==
    /\ pc' = "idle"
    /\ outcome' = out
    /\ history' = Append(history, [fn |-> entry, args |-> args, outcome |-> out])

\* an exception e leaves the running function and every caller of it
Raise(e) == Finish(Raised(e)) /\ frame' = NoFrame /\ UNCHANGED run

\* _manual_welchs_ttest returns (t, p): to run_analysis, line 163, or to the caller
welch_returns(t, p) ==
    IF entry = "run_analysis"
    THEN /\ pc' = "run_row"
         /\ run' = [run EXCEPT !.p_value = p]
         /\ frame' = NoFrame
         /\ UNCHANGED <<outcome, history>>
    ELSE /\ Finish(Returned(<<t, p>>))
         /\ frame' = NoFrame
         /\ UNCHANGED run

\* _two_tailed_p_value returns p: to _manual_welchs_ttest, line 104, which
\* returns (t_stat, p_value) at line 105, or to the caller
pvalue_returns(p) ==
    IF entry = "_two_tailed_p_value"
    THEN Finish(Returned(p)) /\ frame' = NoFrame /\ UNCHANGED run
    ELSE welch_returns(welch.t_stat, p)

\* _student_t_cdf returns c: to _two_tailed_p_value, line 141, or to the caller
cdf_returns(c) ==
    IF entry = "_student_t_cdf"
    THEN Finish(Returned(c)) /\ frame' = NoFrame /\ UNCHANGED run
    ELSE pvalue_returns(two_tailed_tail(c))

(***************************************************************************)
(* _student_t_cdf and _two_tailed_p_value.                                 *)
(***************************************************************************)
\* variant without the special case of x == 0
cdf_x_never_zero(x) == FALSE
\* line 121: if x == 0
cdf_x_is_zero(x) == x.m = 0
\* variant that ignores the sign of x
cdf_sign_one(x) == 1
\* line 123: sign = 1 if x > 0 else -1
cdf_sign(x) == IF x.m > 0 THEN 1 ELSE -1

\* _student_t_cdf, lines 121-128: the x == 0 case, else sign, |x|, n_intervals, h
student_t_cdf_enter ==
    /\ pc = "cdf"
    /\ IF cdf_x_is_zero(frame.x)
       THEN /\ cdf_returns(FHalf)
       ELSE /\ pc' = "total"
            /\ frame' = [frame EXCEPT !.sign = cdf_sign(frame.x),
                                      !.x = FAbs(@),
                                      !.n_intervals = n_intervals_for(FAbs(frame.x)),
                                      !.h = FDiv(FAbs(frame.x),
                                                 FromInt(n_intervals_for(FAbs(frame.x))))]
            /\ UNCHANGED <<run, outcome, history>>
    /\ UNCHANGED <<entry, args, imports, threads, sim, welch, coeff_cache, pdf_calls>>
    /\ UNCHANGED imageVars

\* line 129: total = _student_t_pdf(0.0, df) + _student_t_pdf(x, df); the first
\* _student_t_pdf calls _student_t_coeff(df), which may raise
student_t_cdf_total ==
    /\ pc = "total"
    /\ IF coeff_call_raises(coeff_cache, frame.df)
       THEN /\ Raise("ValueError")
            /\ pdf_calls' = pdf_calls + 1
            /\ UNCHANGED coeff_cache
       ELSE /\ coeff_cache' = cache_after_coeff(coeff_cache, frame.df)
            /\ frame' = [frame EXCEPT
                 !.total = FAdd(student_t_pdf(coeff_cache'[frame.df], FZero, frame.df),
                                student_t_pdf(coeff_cache'[frame.df], frame.x, frame.df)),
                 !.i = 1]
            /\ pc' = "simpson"
            /\ pdf_calls' = pdf_calls + 2
            /\ UNCHANGED <<run, outcome, history>>
    /\ UNCHANGED <<entry, args, imports, threads, sim, welch>>
    /\ UNCHANGED imageVars

\* variant with the weights of odd and even points exchanged
simpson_weight_exchanged(i) == IF i % 2 = 1 THEN 2 ELSE 4
\* line 131: weight = 4 if i % 2 == 1 else 2
simpson_weight(i) == IF i % 2 = 1 THEN 4 ELSE 2

\* one iteration of "for i in range(1, n_intervals)"
SimpsonStep ==
    /\ pc = "simpson"
    /\ frame.i < frame.n_intervals
    /\ frame' = [frame EXCEPT
         !.total = FAdd(@, FMul(FromInt(simpson_weight(frame.i)),
                                student_t_pdf(coeff_cache[frame.df],
                                              FMul(FromInt(frame.i), frame.h), frame.df))),
         !.i = @ + 1]
    /\ pdf_calls' = pdf_calls + 1
    /\ UNCHANGED <<pc, entry, args, imports, threads, sim, run, welch, coeff_cache,
                   outcome, history>>
    /\ UNCHANGED imageVars

\* lines 133-134: integral = (h / 3.0) * total; cdf = 0.5 + sign * integral
cdf_from_total(f) ==
    FAdd(FHalf, FMul(FromInt(f.sign), FMul(FDiv(f.h, FThree), f.total)))

\* lines 133-135: integral, cdf, the clamp, and the returns up to the caller
SimpsonExit ==
    /\ pc = "simpson"
    /\ frame.i >= frame.n_intervals
    /\ cdf_returns(cdf_clamp(cdf_from_total(frame)))
    /\ UNCHANGED <<entry, args, imports, threads, sim, welch, coeff_cache, pdf_calls>>
    /\ UNCHANGED imageVars

\* the frame of a call _student_t_cdf(xv, dfv)
cdf_frame(xv, dfv) == [NoFrame EXCEPT !.x = xv, !.df = dfv]

\* variant that tests df < 0
pvalue_df_negative(df) == df.m < 0
\* line 139: if df <= 0
pvalue_df_not_positive(df) == df.m <= 0

\* _two_tailed_p_value, lines 139-141: the df <= 0 case, else the call of _student_t_cdf
two_tailed_p_value_enter ==
    /\ pc = "pvalue"
    /\ IF pvalue_df_not_positive(frame.df)
       THEN /\ pvalue_returns(FOne)
       ELSE /\ pc' = "cdf"
            /\ UNCHANGED <<run, frame, outcome, history>>
    /\ UNCHANGED <<entry, args, imports, threads, sim, welch, coeff_cache, pdf_calls>>
    /\ UNCHANGED imageVars
(***************************************************************************)
(* statistics.mean and statistics.variance compute with exact fractions    *)
(* and round once, when they convert the result to a float.                *)
(***************************************************************************)
RECURSIVE OddPart(_, _)
\* the float m * 2^e with m odd (or 0): <<m, e>>
OddPart(m, e) == IF m # 0 /\ m % 2 = 0 THEN OddPart(m \div 2, e + 1) ELSE <<m, e>>
\* the smallest exponent of the values of a sample, their common unit
UnitExp(s) ==
    LET es == {OddPart(s[i].m, s[i].e)[2] : i \in {j \in 1..Len(s) : s[j].m # 0}}
    IN  IF es = {} THEN 0 ELSE CHOOSE e \in es : \A f \in es : e <= f
\* the value a in units of 2^u
InUnits(a, u) ==
    IF a.m = 0 THEN 0 ELSE LET o == OddPart(a.m, a.e) IN o[1] * Pow2(o[2] - u)
RECURSIVE SumUnits(_, _)
SumUnits(s, u) == IF s = << >> THEN 0 ELSE InUnits(Head(s), u) + SumUnits(Tail(s), u)
RECURSIVE SumSqUnits(_, _)
SumSqUnits(s, u) ==
    IF s = << >> THEN 0 ELSE InUnits(Head(s), u) * InUnits(Head(s), u) + SumSqUnits(Tail(s), u)

\* statistics.mean(s) for a sample of at least one value
mean(s) ==
    RoundRatio(IF SumUnits(s, UnitExp(s)) < 0 THEN -1 ELSE 1,
               Abs(SumUnits(s, UnitExp(s))), Len(s), UnitExp(s))
\* statistics.variance(s) for a sample of at least two values
variance(s) ==
    RoundRatio(1, Len(s) * SumSqUnits(s, UnitExp(s))
                    - SumUnits(s, UnitExp(s)) * SumUnits(s, UnitExp(s)),
               Len(s) * (Len(s) - 1), 2 * UnitExp(s))

(***************************************************************************)
(* _manual_welchs_ttest.                                                   *)
(***************************************************************************)
\* statistics.mean raises StatisticsError on an empty sample, statistics.variance
\* on a sample of fewer than two values
statistics_raises(s) == Len(s) < 2

\* variant of the size check that fires only when both samples are short
welch_too_few_both(n1, n2) == n1 < 2 /\ n2 < 2
\* line 86: if n1 < 2 or n2 < 2
welch_too_few(n1, n2) == n1 < 2 \/ n2 < 2

\* lines 84-92: the size check, the means and the variances
manual_welchs_ttest_enter ==
    /\ pc = "welch"
    /\ IF welch_too_few(Len(welch.sample_a), Len(welch.sample_b))
       THEN /\ Raise("ValueError")
            /\ welch' = [welch EXCEPT !.n1 = Len(welch.sample_a),
                                      !.n2 = Len(welch.sample_b)]
       ELSE IF statistics_raises(welch.sample_a) \/ statistics_raises(welch.sample_b)
       THEN /\ Raise("StatisticsError")
            /\ welch' = [welch EXCEPT !.n1 = Len(welch.sample_a),
                                      !.n2 = Len(welch.sample_b)]
       ELSE /\ welch' = [welch EXCEPT !.n1 = Len(welch.sample_a),
                                      !.n2 = Len(welch.sample_b),
                                      !.mean1 = mean(welch.sample_a),
                                      !.mean2 = mean(welch.sample_b),
                                      !.var1 = variance(welch.sample_a),
                                      !.var2 = variance(welch.sample_b)]
            /\ pc' = "welch_se"
            /\ UNCHANGED <<run, frame, outcome, history>>
    /\ UNCHANGED <<entry, args, imports, threads, sim, coeff_cache, pdf_calls>>
    /\ UNCHANGED imageVars

\* variant with the first sample's term alone
se_squared_first_sample(w) == FDiv(w.var1, FromInt(w.n1))
\* var1 / n1 + var2 / n2, which lines 94 and 100 both compute
se_squared(w) == FAdd(FDiv(w.var1, FromInt(w.n1)), FDiv(w.var2, FromInt(w.n2)))

\* variant without the zero case of the standard error
welch_se_never_zero(se) == FALSE
\* line 95: if se == 0
welch_se_is_zero(se) == se.m = 0

\* lines 94-96: the standard error and its zero case
manual_welchs_ttest_se ==
    /\ pc = "welch_se"
    /\ welch' = [welch EXCEPT !.se = math_sqrt(se_squared(welch))]
    /\ IF welch_se_is_zero(welch'.se)
       THEN /\ welch_returns(FZero, FOne)
       ELSE /\ pc' = "welch_df"
            /\ UNCHANGED <<run, frame, outcome, history>>
    /\ UNCHANGED <<entry, args, imports, threads, sim, coeff_cache, pdf_calls>>
    /\ UNCHANGED imageVars

\* variant of the numerator without the square
welch_numerator_unsquared(w) == se_squared(w)
\* line 100: numerator = (var1 / n1 + var2 / n2) ** 2
welch_numerator(w) == FMul(se_squared(w), se_squared(w))
\* line 101: denominator = ((var1 / n1) ** 2) / (n1 - 1) + ((var2 / n2) ** 2) / (n2 - 1)
welch_denominator(w) ==
    FAdd(FDiv(FMul(FDiv(w.var1, FromInt(w.n1)), FDiv(w.var1, FromInt(w.n1))),
              FromInt(w.n1 - 1)),
         FDiv(FMul(FDiv(w.var2, FromInt(w.n2)), FDiv(w.var2, FromInt(w.n2))),
              FromInt(w.n2 - 1)))

\* variant that passes the pooled degrees of freedom n1 + n2 - 2
welch_pvalue_frame_pooled(w) == [NoFrame EXCEPT !.x = w.t_stat, !.df = FromInt(w.n1 + w.n2 - 2)]
\* line 104: the arguments of the call _two_tailed_p_value(t_stat, df)
welch_pvalue_frame(w) == [NoFrame EXCEPT !.x = w.t_stat, !.df = w.df]

\* lines 98-104: t_stat, the Satterthwaite df (float divisions, which raise
\* ZeroDivisionError on a zero divisor), and the call of _two_tailed_p_value
manual_welchs_ttest_df ==
    /\ pc = "welch_df"
    /\ IF welch.se.m = 0
       THEN /\ Raise("ZeroDivisionError")
            /\ UNCHANGED welch
       ELSE IF welch_denominator(welch).m = 0
       THEN /\ welch' = [welch EXCEPT !.t_stat = FDiv(FSub(welch.mean1, welch.mean2), welch.se),
                                      !.numerator = welch_numerator(welch),
                                      !.denominator = welch_denominator(welch)]
            /\ Raise("ZeroDivisionError")
       ELSE /\ welch' = [welch EXCEPT !.t_stat = FDiv(FSub(welch.mean1, welch.mean2), welch.se),
                                      !.numerator = welch_numerator(welch),
                                      !.denominator = welch_denominator(welch),
                                      !.df = FDiv(welch_numerator(welch),
                                                  welch_denominator(welch))]
            /\ frame' = welch_pvalue_frame(welch')
            /\ pc' = "pvalue"
            /\ UNCHANGED <<run, outcome, history>>
    /\ UNCHANGED <<entry, args, imports, threads, sim, coeff_cache, pdf_calls>>
    /\ UNCHANGED imageVars

(***************************************************************************)
(* run_analysis.                                                           *)
(***************************************************************************)
\* line 151: for metric in ("engagement_rate", "conversion_rate")
Metrics == <<"engagement_rate", "conversion_rate">>

RECURSIVE metric_values(_, _, _)
\* lines 147-153: [row[metric] for row in records if row["is_post_launch"] == post]
metric_values(records, metric, post) ==
    IF records = << >> THEN << >>
    ELSE IF Head(records).is_post_launch = post
         THEN <<Head(records)[metric]>> \o metric_values(Tail(records), metric, post)
         ELSE metric_values(Tail(records), metric, post)

RECURSIVE float_sum(_, _)
\* the builtin sum over floats: additions from left to right, starting at acc
float_sum(s, acc) == IF s = << >> THEN acc ELSE float_sum(Tail(s), FAdd(acc, Head(s)))

\* lines 155-156: sum(values) / len(values)
run_mean(values) == FDiv(float_sum(values, FZero), FromInt(Len(values)))

\* what scipy.stats.ttest_ind may return as its p-value: the library is not
\* part of the program, its result is any of these
LibPValues == {FZero, FHalf, FOne}

\* lines 152-163: the values of the metric, the means, and the t-test by the
\* library or by the call of _manual_welchs_ttest(post_values, pre_values)
run_analysis_metric ==
    /\ pc = "run"
    /\ LET pre_values == metric_values(args.records, Metrics[run.metric], FALSE)
           post_values == metric_values(args.records, Metrics[run.metric], TRUE)
       IN  IF pre_values = << >> \/ post_values = << >>
           THEN /\ Raise("ZeroDivisionError")
                /\ UNCHANGED welch
           ELSE /\ frame' = NoFrame
                /\ UNCHANGED <<outcome, history>>
                /\ IF stats # "None"
                   THEN /\ \E p \in LibPValues :
                             run' = [run EXCEPT !.pre_mean = run_mean(pre_values),
                                                !.post_mean = run_mean(post_values),
                                                !.mean_change = FSub(run_mean(post_values),
                                                                     run_mean(pre_values)),
                                                !.p_value = p]
                        /\ pc' = "run_row"
                        /\ UNCHANGED welch
                   ELSE /\ run' = [run EXCEPT !.pre_mean = run_mean(pre_values),
                                              !.post_mean = run_mean(post_values),
                                              !.mean_change = FSub(run_mean(post_values),
                                                                   run_mean(pre_values))]
                        /\ welch' = [NoWelch EXCEPT !.sample_a = post_values,
                                                    !.sample_b = pre_values]
                        /\ pc' = "welch"
    /\ UNCHANGED <<entry, args, imports, threads, sim, coeff_cache, pdf_calls>>
    /\ UNCHANGED imageVars

\* lines 165-173: the summary row of the metric
summary_row(r) ==
    [metric |-> Metrics[r.metric], pre_mean |-> r.pre_mean, post_mean |-> r.post_mean,
     mean_change |-> r.mean_change, p_value |-> r.p_value]

\* lines 165-175: append the row; after the last metric return summary_rows
run_analysis_row ==
    /\ pc = "run_row"
    /\ run' = [run EXCEPT !.summary_rows = Append(@, summary_row(run)),
                          !.metric = @ + 1]
    /\ IF run.metric = Len(Metrics)
       THEN Finish(Returned(run'.summary_rows))
       ELSE pc' = "run" /\ UNCHANGED <<outcome, history>>
    /\ UNCHANGED <<entry, args, imports, threads, sim, welch, frame, coeff_cache,
                   pdf_calls>>
    /\ UNCHANGED imageVars

(***************************************************************************)
(* The caller and the values it passes.                                    *)
(***************************************************************************)
XVals == {FZero} \cup {Dyadic(s * k[1], k[2]) : s \in {1, -1},
                       k \in {<<1, -2>>, <<1, 0>>, <<12, 0>>, <<1, 20>>}}
DfVals == {Dyadic(1, 0), Dyadic(11, -2), Dyadic(5, 0),
           FZero, Dyadic(-1, 0), Dyadic(1, -ExpFloor)}

\* the caller, while no call is running, invokes fn with arguments as
Call(fn, as, line) ==
    /\ entry' = fn
    /\ args' = as
    /\ pc' = line
    /\ pdf_calls' = 0
    /\ outcome' = NoOutcome
    /\ UNCHANGED <<imports, threads, sim, coeff_cache, history>>

\* the caller invokes _student_t_cdf(x, df)
Call_student_t_cdf ==
    /\ pc = "idle"
    /\ Len(history) = 0
    /\ \E xv \in XVals, dfv \in DfVals :
         /\ Call("_student_t_cdf", [x |-> xv, df |-> dfv], "cdf")
         /\ frame' = cdf_frame(xv, dfv)
    /\ UNCHANGED <<run, welch>>
    /\ UNCHANGED imageVars

\* the caller invokes _student_t_cdf(-x, df) after _student_t_cdf(x, df)
Call_student_t_cdf_mirrored ==
    /\ pc = "idle"
    /\ 0 < Len(history) /\ Len(history) < MaxCalls
    /\ entry = "_student_t_cdf"
    /\ Call("_student_t_cdf", [x |-> FNeg(args.x), df |-> args.df], "cdf")
    /\ frame' = cdf_frame(FNeg(args.x), args.df)
    /\ UNCHANGED <<run, welch>>
    /\ UNCHANGED imageVars

TVals == XVals

\* the caller invokes _two_tailed_p_value(t_stat, df)
Call_two_tailed_p_value ==
    /\ pc = "idle"
    /\ Len(history) = 0
    /\ \E tv \in TVals, dfv \in DfVals :
         /\ Call("_two_tailed_p_value", [t_stat |-> tv, df |-> dfv], "pvalue")
         /\ frame' = cdf_frame(tv, dfv)
    /\ UNCHANGED <<run, welch>>
    /\ UNCHANGED imageVars

\* the longest sample the caller passes
MaxLen == 3
\* the values of a sample; the variance of a sample of 0 and 2^-6 is so small
\* that its square underflows
SampleVals == {FZero, Dyadic(1, -6), FOne}
\* the samples: mean and variance do not depend on the order of the values,
\* so the values come in nondecreasing order
Samples ==
    {s \in UNION {[1..n -> SampleVals] : n \in 0..MaxLen} :
        \A i \in 1..(Len(s) - 1) : FLe(s[i], s[i + 1])}

\* the caller invokes _manual_welchs_ttest(sample_a, sample_b)
Call_manual_welchs_ttest ==
    /\ pc = "idle"
    /\ Len(history) = 0
    /\ \E a \in Samples, b \in Samples :
         /\ Call("_manual_welchs_ttest", [sample_a |-> a, sample_b |-> b], "welch")
         /\ welch' = [NoWelch EXCEPT !.sample_a = a, !.sample_b = b]
    /\ UNCHANGED <<run, frame>>
    /\ UNCHANGED imageVars

\* the caller invokes _manual_welchs_ttest(B, A) after _manual_welchs_ttest(A, B)
Call_manual_welchs_ttest_swapped ==
    /\ pc = "idle"
    /\ Len(history) = 1
    /\ entry = "_manual_welchs_ttest"
    /\ Call("_manual_welchs_ttest",
            [sample_a |-> args.sample_b, sample_b |-> args.sample_a], "welch")
    /\ welch' = [NoWelch EXCEPT !.sample_a = args.sample_b, !.sample_b = args.sample_a]
    /\ UNCHANGED <<run, frame>>
    /\ UNCHANGED imageVars

\* sample values whose variances are no powers of two, so that the operations
\* of the df round
RateVals == SampleVals \cup {Dyadic(3, -4), Dyadic(1, -2), Dyadic(3, -2)}
RateSamples ==
    {s \in UNION {[1..n -> RateVals] : n \in 0..MaxLen} :
        \A i \in 1..(Len(s) - 1) : FLe(s[i], s[i + 1])}

\* the caller invokes _manual_welchs_ttest(sample_a, sample_b) on such samples
Call_manual_welchs_ttest_rates ==
    /\ pc = "idle"
    /\ Len(history) = 0
    /\ \E a \in RateSamples, b \in RateSamples :
         /\ Call("_manual_welchs_ttest", [sample_a |-> a, sample_b |-> b], "welch")
         /\ welch' = [NoWelch EXCEPT !.sample_a = a, !.sample_b = b]
    /\ UNCHANGED <<run, frame>>
    /\ UNCHANGED imageVars

\* the most users of one period in the records the caller passes
MaxRecords == 2
\* the engagement rate and the conversion rate of a user
RatePairs == <<[engagement_rate |-> FZero, conversion_rate |-> FZero],
               [engagement_rate |-> FOne, conversion_rate |-> Dyadic(1, -6)],
               [engagement_rate |-> FHalf, conversion_rate |-> FOne]>>
\* the users of one period, as indexes into RatePairs in nondecreasing order
Blocks ==
    {b \in UNION {[1..n -> 1..Len(RatePairs)] : n \in 0..MaxRecords} :
        \A i \in 1..(Len(b) - 1) : b[i] <= b[i + 1]}
\* the records of a block of users of one period
block_records(b, post) ==
    [i \in 1..Len(b) |-> [is_post_launch |-> post,
                          engagement_rate |-> RatePairs[b[i]].engagement_rate,
                          conversion_rate |-> RatePairs[b[i]].conversion_rate]]

\* the caller invokes run_analysis(records); the records list the pre-launch
\* users first, as simulate_user_metrics produces them
Call_run_analysis ==
    /\ pc = "idle"
    /\ Len(history) = 0
    /\ \E pre \in Blocks, post \in Blocks :
         Call("run_analysis",
              [records |-> block_records(pre, FALSE) \o block_records(post, TRUE)], "run")
    /\ run' = [NoRun EXCEPT !.metric = 1]
    /\ UNCHANGED <<welch, frame>>
    /\ UNCHANGED imageVars

(***************************************************************************)
(* Bytes, CRC-32 and the zlib stream.  A byte is an integer in 0..255 and  *)
(* a bytes object a sequence of bytes.  A 32-bit word is the function of   *)
(* its bits, bit 0 the least significant.                                  *)
(***************************************************************************)
\* int.to_bytes(4, "big") and struct.pack(">I", n), for n < 2^31
U32BE(n) == <<n \div 16777216, (n \div 65536) % 256, (n \div 256) % 256, n % 256>>
\* the 32-bit word of the 16-bit halves hi and lo
Bits32(hi, lo) ==
    [i \in 0..31 |-> IF i < 16 THEN (lo \div Pow2(i)) % 2 ELSE (hi \div Pow2(i - 16)) % 2]
Xor32(a, b) == [i \in 0..31 |-> (a[i] + b[i]) % 2]
\* the byte k of a word, k = 0 the least significant
WordByte(w, k) ==
    w[8 * k] + 2 * w[8 * k + 1] + 4 * w[8 * k + 2] + 8 * w[8 * k + 3] + 16 * w[8 * k + 4]
      + 32 * w[8 * k + 5] + 64 * w[8 * k + 6] + 128 * w[8 * k + 7]
\* crc.to_bytes(4, "big")
WordBE(w) == <<WordByte(w, 3), WordByte(w, 2), WordByte(w, 1), WordByte(w, 0)>>

\* the reflected CRC-32 polynomial EDB88320, as its halves EDB8 and 8320
CrcPolyHi == 60856
CrcPolyLo == 33568
AllOnes16 == 65535
\* one bit of the CRC register: shift right, and xor the polynomial if a 1 fell out
crc_shift(c) ==
    LET s == [i \in 0..31 |-> IF i = 31 THEN 0 ELSE c[i + 1]]
    IN  IF c[0] = 1 THEN Xor32(s, Bits32(CrcPolyHi, CrcPolyLo)) ELSE s
\* one byte of input
crc_byte(c, b) ==
    crc_shift(crc_shift(crc_shift(crc_shift(
        crc_shift(crc_shift(crc_shift(crc_shift(Xor32(c, Bits32(0, b))))))))))
RECURSIVE crc_fold(_, _)
\* the register after the bytes of data, one byte at a time
crc_fold(c, data) ==
    IF data = << >> \/ DOMAIN c # 0..31 THEN c
    ELSE crc_fold(crc_byte(c, Head(data)), Tail(data))
\* zlib.crc32(data) & 0xFFFFFFFF
zlib_crc32(data) ==
    Xor32(crc_fold(Bits32(AllOnes16, AllOnes16), data), Bits32(AllOnes16, AllOnes16))

\* the modulus of Adler-32
AdlerMod == 65521
RECURSIVE adler_fold(_, _, _)
\* the sums a and b of Adler-32 after data
adler_fold(a, b, data) ==
    IF data = << >> THEN <<a, b>>
    ELSE adler_fold((a + Head(data)) % AdlerMod,
                    (b + ((a + Head(data)) % AdlerMod)) % AdlerMod, Tail(data))
\* the Adler-32 of data, big-endian
adler32_bytes(data) ==
    LET ab == adler_fold(1, 0, data)
    IN  <<ab[2] \div 256, ab[2] % 256, ab[1] \div 256, ab[1] % 256>>

\* zlib.compress(data, level=9) for data of fewer than 65536 bytes.  The library
\* may emit any DEFLATE encoding of data; the model takes the stored one: the
\* zlib header 78 DA, one final stored block (01, LEN, NLEN little-endian, the
\* data), and the Adler-32 of the data.
zlib_compress(data) ==
    <<120, 218, 1, Len(data) % 256, Len(data) \div 256,
      (AllOnes16 - Len(data)) % 256, (AllOnes16 - Len(data)) \div 256>>
      \o data \o adler32_bytes(data)

(***************************************************************************)
(* _write_png.                                                             *)
(***************************************************************************)
\* b"\x89PNG\r\n\x1a\n"
PngSignature == <<137, 80, 78, 71, 13, 10, 26, 10>>
\* b"IHDR", b"IDAT", b"IEND"
TypeIHDR == <<73, 72, 68, 82>>
TypeIDAT == <<73, 68, 65, 84>>
TypeIEND == <<73, 69, 78, 68>>

\* variant whose CRC covers the data bytes only
chunk_crc_of_data(chunk_type, data) ==
    U32BE(Len(data)) \o chunk_type \o data \o WordBE(zlib_crc32(data))
\* lines 186-188: the inner function chunk(chunk_type, data)
chunk(chunk_type, data) ==
    U32BE(Len(data)) \o chunk_type \o data \o WordBE(zlib_crc32(chunk_type \o data))

\* bytes(pixel) raises ValueError unless every channel is in range(0, 256)
pixel_bytes_raises(pixel) == \E k \in 1..Len(pixel) : pixel[k] < 0 \/ pixel[k] > 255
RECURSIVE row_bytes_reversed(_)
\* variant that takes the pixels of a row right to left
row_bytes_reversed(row) ==
    IF row = << >> THEN << >>
    ELSE row[Len(row)] \o row_bytes_reversed(SubSeq(row, 1, Len(row) - 1))
RECURSIVE row_bytes(_)
\* lines 193-194: the bytes of the pixels of a row, left to right
row_bytes(row) == IF row = << >> THEN << >> ELSE Head(row) \o row_bytes(Tail(row))

\* variant without the filter byte
scanline_unfiltered(row) == row_bytes(row)
\* lines 192-194: the scanline of a row, the filter byte 0 (no filter) and its pixels
scanline(row) == <<0>> \o row_bytes(row)

\* variant that packs the height before the width
ihdr_data_swapped(width, height) == U32BE(height) \o U32BE(width) \o <<8, 2, 0, 0, 0>>
\* lines 198-203: struct.pack(">IIBBBBB", width, height, 8, 2, 0, 0, 0)
ihdr_data(width, height) == U32BE(width) \o U32BE(height) \o <<8, 2, 0, 0, 0>>

\* lines 183-184 and 190: height, width, and the empty raw_data
write_png_enter ==
    /\ pc = "png"
    /\ png' = [height |-> Len(args.rgb_matrix),
               width |-> IF Len(args.rgb_matrix) # 0 THEN Len(args.rgb_matrix[1]) ELSE 0,
               row |-> 1,
               raw_data |-> << >>]
    /\ pc' = "png_rows"
    /\ UNCHANGED <<entry, args, sink, outcome, history>>
    /\ UNCHANGED <<statVars, plotVars>>

\* lines 191-194: one iteration of "for row in rgb_matrix"
write_png_row ==
    /\ pc = "png_rows"
    /\ png.row <= Len(args.rgb_matrix)
    /\ IF \E c \in 1..Len(args.rgb_matrix[png.row]) :
              pixel_bytes_raises(args.rgb_matrix[png.row][c])
       THEN /\ Finish(Raised("ValueError"))
            /\ UNCHANGED png
       ELSE /\ png' = [png EXCEPT
                 !.raw_data = @ \o scanline(args.rgb_matrix[png.row]),
                 !.row = @ + 1]
            /\ UNCHANGED <<pc, outcome, history>>
    /\ UNCHANGED <<entry, args, sink>>
    /\ UNCHANGED <<statVars, plotVars>>

\* lines 196-197: open the file for writing, which empties it, and write the signature
write_png_open ==
    /\ pc = "png_rows"
    /\ png.row > Len(args.rgb_matrix)
    /\ sink' = [opened |-> TRUE, closed |-> FALSE, writes |-> <<PngSignature>>]
    /\ pc' = "png_ihdr"
    /\ UNCHANGED <<entry, args, png, outcome, history>>
    /\ UNCHANGED <<statVars, plotVars>>

\* lines 198-203: write the IHDR chunk
write_png_ihdr ==
    /\ pc = "png_ihdr"
    /\ sink' = [sink EXCEPT
         !.writes = Append(@, chunk(TypeIHDR, ihdr_data(png.width, png.height)))]
    /\ pc' = "png_idat"
    /\ UNCHANGED <<entry, args, png, outcome, history>>
    /\ UNCHANGED <<statVars, plotVars>>

\* how a call of zlib.compress ends: it returns the stream, or it raises zlib.error
\* when the library reports an error (it could not get the memory it needs)
CompressOutcomes == {"ok", "zlib.error"}

\* line 204: compress raw_data and write the IDAT chunk; an exception of the
\* compressor leaves the with block, which closes the file with what was written
write_png_idat ==
    /\ pc = "png_idat"
    /\ \E r \in CompressOutcomes :
         IF r = "ok"
         THEN /\ sink' = [sink EXCEPT
                   !.writes = Append(@, chunk(TypeIDAT, zlib_compress(png.raw_data)))]
              /\ pc' = "png_iend"
              /\ UNCHANGED <<outcome, history>>
         ELSE /\ sink' = [sink EXCEPT !.closed = TRUE]
              /\ Finish(Raised(r))
    /\ UNCHANGED <<entry, args, png>>
    /\ UNCHANGED <<statVars, plotVars>>

\* variant that ends the file after the IDAT chunk
write_png_iend_omitted ==
    /\ pc = "png_iend"
    /\ sink' = [sink EXCEPT !.closed = TRUE]
    /\ Finish(Returned("None"))
    /\ UNCHANGED <<entry, args, png>>
    /\ UNCHANGED <<statVars, plotVars>>

\* line 205 and the end of the with block: write the IEND chunk, close the file, return
write_png_iend ==
    /\ pc = "png_iend"
    /\ sink' = [sink EXCEPT !.writes = Append(@, chunk(TypeIEND, << >>)), !.closed = TRUE]
    /\ Finish(Returned("None"))
    /\ UNCHANGED <<entry, args, png>>
    /\ UNCHANGED <<statVars, plotVars>>

\* the largest canvas the caller passes
MaxHeight == 2
MaxWidth == 2
\* the colors of the pixels of a canvas
Palette == {<<255, 0, 0>>, <<31, 119, 180>>}
\* pixels with a channel outside 0..255
BadPixels == {<<256, 0, 0>>, <<0, -1, 0>>}
\* the canvases: every grid of height rows of width pixels, the zero-area ones included
Canvases ==
    UNION {[1..h -> [1..w -> Palette]] : h \in 0..MaxHeight, w \in 0..MaxWidth}
\* the canvases of one color with one pixel replaced by a bad pixel
BadCanvases ==
    {[r \in 1..h |-> [c \in 1..w |-> IF r = p[1] /\ c = p[2] THEN bad ELSE <<255, 0, 0>>]] :
        h \in 1..MaxHeight, w \in 1..MaxWidth,
        p \in (1..MaxHeight) \X (1..MaxWidth), bad \in BadPixels}

\* the caller invokes _write_png(rgb_matrix, output_path)
Call_write_png ==
    /\ pc = "idle"
    /\ Len(history) = 0
    /\ \E m \in Canvases \cup BadCanvases : Call("_write_png", [rgb_matrix |-> m], "png")
    /\ UNCHANGED <<run, welch, frame>>
    /\ UNCHANGED imageVars


(***************************************************************************)
(* _fallback_plot: the canvas, the font, draw_text and the rectangles.     *)
(* The body draws on the canvas (lines 208-315) and then passes it to      *)
(* _write_png (line 317), whose work on a canvas is SpecPng's.             *)
(***************************************************************************)
\* line 209: width, height = 700, 420, scaled down
CanvasWidth == 6
CanvasHeight == 6
\* how many drawing steps, calls of draw_text and rectangles, one plot makes
MaxDraws == 2

\* where lst[i] of a Python list of n elements is, counted from 1: a negative
\* i counts from the end; 0 stands for IndexError
list_index(n, i) ==
    IF 0 <= i /\ i < n THEN i + 1
    ELSE IF -n <= i /\ i < 0 THEN n + i + 1
    ELSE 0

\* variant in which one row list is shared by all rows
create_canvas_shared_row(width, height, color) ==
    [rows |-> [r \in 1..height |-> 1],
     lists |-> <<[c \in 1..width |-> <<color[1], color[2], color[3]>>]>>]
\* lines 178-179: _create_canvas(width, height, color); rows holds, for each
\* row, which list object it is, and lists holds the pixels of each list object
create_canvas(width, height, color) ==
    [rows |-> [r \in 1..height |-> r],
     lists |-> [r \in 1..height |-> [c \in 1..width |-> <<color[1], color[2], color[3]>>]]]
\* the default color of _create_canvas
White == <<255, 255, 255>>
\* the list of lists of pixels that the canvas is
grid(cv) == [r \in 1..Len(cv.rows) |-> cv.lists[cv.rows[r]]]

\* the canvas while drawing on it, and the exception a statement raised
Drawing(cv) == [canvas |-> cv, exc |-> "None"]
\* canvas[py][px] = value
store_pixel(d, py, px, value) ==
    IF d.exc # "None" THEN d
    ELSE LET r == list_index(Len(d.canvas.rows), py)
         IN  IF r = 0 THEN [d EXCEPT !.exc = "IndexError"]
             ELSE LET ref == d.canvas.rows[r]
                      c == list_index(Len(d.canvas.lists[ref]), px)
                  IN  IF c = 0 THEN [d EXCEPT !.exc = "IndexError"]
                      ELSE [d EXCEPT !.canvas.lists[ref][c] = value]

\* lines 215-255: FONT, each glyph a list of rows, each row a string of cells
FONT ==
    "A" :> <<<<" ", "1", " ">>, <<"1", " ", "1">>, <<"1", "1", "1">>, <<"1", " ", "1">>, <<"1", " ", "1">>>> @@
    "B" :> <<<<"1", "1", " ">>, <<"1", " ", "1">>, <<"1", "1", " ">>, <<"1", " ", "1">>, <<"1", "1", " ">>>> @@
    "C" :> <<<<" ", "1", "1">>, <<"1", " ", " ">>, <<"1", " ", " ">>, <<"1", " ", " ">>, <<" ", "1", "1">>>> @@
    "D" :> <<<<"1", "1", " ">>, <<"1", " ", "1">>, <<"1", " ", "1">>, <<"1", " ", "1">>, <<"1", "1", " ">>>> @@
    "E" :> <<<<"1", "1", "1">>, <<"1", " ", " ">>, <<"1", "1", " ">>, <<"1", " ", " ">>, <<"1", "1", "1">>>> @@
    "F" :> <<<<"1", "1", "1">>, <<"1", " ", " ">>, <<"1", "1", " ">>, <<"1", " ", " ">>, <<"1", " ", " ">>>> @@
    "G" :> <<<<" ", "1", "1">>, <<"1", " ", " ">>, <<"1", " ", " ">>, <<"1", " ", "1">>, <<" ", "1", "1">>>> @@
    "H" :> <<<<"1", " ", "1">>, <<"1", " ", "1">>, <<"1", "1", "1">>, <<"1", " ", "1">>, <<"1", " ", "1">>>> @@
    "I" :> <<<<"1", "1", "1">>, <<" ", "1", " ">>, <<" ", "1", " ">>, <<" ", "1", " ">>, <<"1", "1", "1">>>> @@
    "K" :> <<<<"1", " ", "1">>, <<"1", "1", " ">>, <<"1", " ", " ">>, <<"1", "1", " ">>, <<"1", " ", "1">>>> @@
    "L" :> <<<<"1", " ", " ">>, <<"1", " ", " ">>, <<"1", " ", " ">>, <<"1", " ", " ">>, <<"1", "1", "1">>>> @@
    "M" :> <<<<"1", " ", "1">>, <<"1", "1", "1">>, <<"1", "1", "1">>, <<"1", " ", "1">>, <<"1", " ", "1">>>> @@
    "N" :> <<<<"1", " ", "1">>, <<"1", "1", "1">>, <<"1", "1", "1">>, <<"1", "1", "1">>, <<"1", " ", "1">>>> @@
    "O" :> <<<<"1", "1", "1">>, <<"1", " ", "1">>, <<"1", " ", "1">>, <<"1", " ", "1">>, <<"1", "1", "1">>>> @@
    "P" :> <<<<"1", "1", "1">>, <<"1", " ", "1">>, <<"1", "1", "1">>, <<"1", " ", " ">>, <<"1", " ", " ">>>> @@
    "R" :> <<<<"1", "1", "1">>, <<"1", " ", "1">>, <<"1", "1", "1">>, <<"1", "1", " ">>, <<"1", " ", "1">>>> @@
    "S" :> <<<<" ", "1", "1">>, <<"1", " ", " ">>, <<"1", "1", "1">>, <<" ", " ", "1">>, <<"1", "1", " ">>>> @@
    "T" :> <<<<"1", "1", "1">>, <<" ", "1", " ">>, <<" ", "1", " ">>, <<" ", "1", " ">>, <<" ", "1", " ">>>> @@
    "U" :> <<<<"1", " ", "1">>, <<"1", " ", "1">>, <<"1", " ", "1">>, <<"1", " ", "1">>, <<"1", "1", "1">>>> @@
    "V" :> <<<<"1", " ", "1">>, <<"1", " ", "1">>, <<"1", " ", "1">>, <<"1", " ", "1">>, <<" ", "1", " ">>>> @@
    "Z" :> <<<<"1", "1", "1">>, <<" ", " ", "1">>, <<" ", "1", " ">>, <<"1", " ", " ">>, <<"1", "1", "1">>>> @@
    " " :> <<<<" ", " ", " ">>, <<" ", " ", " ">>, <<" ", " ", " ">>, <<" ", " ", " ">>, <<" ", " ", " ">>>> @@
    "(" :> <<<<" ", "1">>, <<"1", " ">>, <<"1", " ">>, <<"1", " ">>, <<" ", "1">>>> @@
    ")" :> <<<<"1", " ">>, <<" ", "1">>, <<" ", "1">>, <<" ", "1">>, <<"1", " ">>>> @@
    "-" :> <<<<" ", " ", " ">>, <<" ", " ", " ">>, <<"1", "1", "1">>, <<" ", " ", " ">>, <<" ", " ", " ">>>> @@
    "=" :> <<<<" ", " ", " ">>, <<"1", "1", "1">>, <<" ", " ", " ">>, <<"1", "1", "1">>, <<" ", " ", " ">>>> @@
    ":" :> <<<<" ", " ", " ">>, <<" ", "1", " ">>, <<" ", " ", " ">>, <<" ", "1", " ">>, <<" ", " ", " ">>>> @@
    "0" :> <<<<"1", "1", "1">>, <<"1", " ", "1">>, <<"1", " ", "1">>, <<"1", " ", "1">>, <<"1", "1", "1">>>> @@
    "1" :> <<<<" ", "1", " ">>, <<"1", "1", " ">>, <<" ", "1", " ">>, <<" ", "1", " ">>, <<"1", "1", "1">>>> @@
    "2" :> <<<<"1", "1", "1">>, <<" ", " ", "1">>, <<"1", "1", "1">>, <<"1", " ", " ">>, <<"1", "1", "1">>>> @@
    "3" :> <<<<"1", "1", "1">>, <<" ", " ", "1">>, <<"1", "1", "1">>, <<" ", " ", "1">>, <<"1", "1", "1">>>> @@
    "4" :> <<<<"1", " ", "1">>, <<"1", " ", "1">>, <<"1", "1", "1">>, <<" ", " ", "1">>, <<" ", " ", "1">>>> @@
    "5" :> <<<<"1", "1", "1">>, <<"1", " ", " ">>, <<"1", "1", "1">>, <<" ", " ", "1">>, <<"1", "1", "1">>>> @@
    "6" :> <<<<"1", "1", "1">>, <<"1", " ", " ">>, <<"1", "1", "1">>, <<"1", " ", "1">>, <<"1", "1", "1">>>> @@
    "7" :> <<<<"1", "1", "1">>, <<" ", " ", "1">>, <<" ", "1", " ">>, <<" ", "1", " ">>, <<" ", "1", " ">>>> @@
    "8" :> <<<<"1", "1", "1">>, <<"1", " ", "1">>, <<"1", "1", "1">>, <<"1", " ", "1">>, <<"1", "1", "1">>>> @@
    "9" :> <<<<"1", "1", "1">>, <<"1", " ", "1">>, <<"1", "1", "1">>, <<" ", " ", "1">>, <<"1", "1", "1">>>> @@
    "." :> <<<<" ", " ", " ">>, <<" ", " ", " ">>, <<" ", " ", " ">>, <<" ", " ", " ">>, <<" ", "1", " ">>>> @@
    "," :> <<<<" ", " ", " ">>, <<" ", " ", " ">>, <<" ", " ", " ">>, <<" ", "1", " ">>, <<" ", "1", " ">>>>

\* variant that gives the glyph of "0" for a character that is no key
font_get_box(ch) == IF ch \in DOMAIN FONT THEN FONT[ch] ELSE FONT["0"]
\* line 259: FONT.get(ch, FONT[" "])
font_get(ch) == IF ch \in DOMAIN FONT THEN FONT[ch] ELSE FONT[" "]

\* str.upper() of one character, for the characters the caller uses
LowerCase == <<"a", "b", "c", "d", "e", "f", "g", "h", "i", "j", "k", "l", "m",
               "n", "o", "p", "q", "r", "s", "t", "u", "v", "w", "x", "y", "z">>
UpperCase == <<"A", "B", "C", "D", "E", "F", "G", "H", "I", "J", "K", "L", "M",
               "N", "O", "P", "Q", "R", "S", "T", "U", "V", "W", "X", "Y", "Z">>
char_upper(ch) ==
    IF \E i \in 1..Len(LowerCase) : LowerCase[i] = ch
    THEN <<UpperCase[CHOOSE i \in 1..Len(LowerCase) : LowerCase[i] = ch]>>
    ELSE IF ch = "ß" THEN <<"S", "S">>
    ELSE <<ch>>
\* variant that looks the text up as it is
str_upper_as_is(text) == text
RECURSIVE str_upper(_)
\* line 258: text.upper()
str_upper(text) ==
    IF text = << >> THEN << >> ELSE char_upper(Head(text)) \o str_upper(Tail(text))

\* variant of the test of line 265 without the lower bounds
draw_text_in_bounds_upper_only(px, py) == px < CanvasWidth /\ py < CanvasHeight
\* line 265: 0 <= px < width and 0 <= py < height
draw_text_in_bounds(px, py) ==
    0 <= px /\ px < CanvasWidth /\ 0 <= py /\ py < CanvasHeight

RECURSIVE stamp_row(_, _, _, _, _, _)
\* lines 261-266: "for gx, val in enumerate(row)" from cell gx on
stamp_row(d, row, gx, x, py, color) ==
    IF gx >= Len(row) THEN d
    ELSE stamp_row(IF row[gx + 1] = "1" /\ draw_text_in_bounds(x + gx, py)
                   THEN store_pixel(d, py, x + gx, <<color[1], color[2], color[3]>>)
                   ELSE d,
                   row, gx + 1, x, py, color)
RECURSIVE stamp_glyph(_, _, _, _, _, _)
\* lines 260-266: "for gy, row in enumerate(glyph)" from row gy on
stamp_glyph(d, glyph, gy, x, y, color) ==
    IF gy >= Len(glyph) THEN d
    ELSE stamp_glyph(stamp_row(d, glyph[gy + 1], 0, x, y + gy, color),
                     glyph, gy + 1, x, y, color)

\* variant that advances by the constant 4
advance_fixed(glyph) == 4
\* line 267: len(glyph[0]) + 1
advance(glyph) == Len(glyph[1]) + 1

\* variant of the test of lines 288, 299, 305 without the upper bounds
fill_in_bounds_lower_only(x, y) == 0 <= x /\ 0 <= y
\* lines 288, 299, 305: 0 <= x < width and 0 <= y < height
fill_in_bounds(x, y) ==
    0 <= x /\ x < CanvasWidth /\ 0 <= y /\ y < CanvasHeight

RECURSIVE fill_columns(_, _, _, _, _)
\* lines 287-289, 298-300, 304-306: "for x in range(x, x_stop)" in the row y
fill_columns(d, x, x_stop, y, color) ==
    IF x >= x_stop THEN d
    ELSE fill_columns(IF fill_in_bounds(x, y)
                      THEN store_pixel(d, y, x, <<color[1], color[2], color[3]>>)
                      ELSE d,
                      x + 1, x_stop, y, color)
\* lines 209-210: the call of _fallback_plot creates the canvas
Call_fallback_plot ==
    /\ pc = "idle"
    /\ Len(history) = 0
    /\ Call("_fallback_plot", [output_path |-> "uplift.png"], "plot")
    /\ canvas' = create_canvas(CanvasWidth, CanvasHeight, White)
    /\ plot' = NoPlot
    /\ UNCHANGED <<run, welch, frame, sink, png, draw>>

\* the texts, origins and colors of the calls of draw_text
Texts ==
    {<< >>, <<"a">>, <<"1", "0">>, <<"@", "1">>, <<" ", "1">>, <<"(", "1">>,
     <<"j", ":">>, <<"ß">>}
TextXs == {-2, 0, CanvasWidth - 1}
TextYs == {-2, 0, CanvasHeight - 2}
Black == <<0, 0, 0>>

\* lines 269-315: the body calls draw_text(text, x, y); line 258 takes text.upper()
fallback_plot_draw_text ==
    /\ pc = "plot"
    /\ plot.calls < MaxDraws
    /\ \E text \in Texts, x \in TextXs, y \in TextYs :
         draw' = [text |-> text, upper |-> str_upper(text), ch |-> 1,
                  x |-> x, y |-> y, color |-> Black]
    /\ plot' = [plot EXCEPT !.calls = @ + 1]
    /\ pc' = "draw_text"
    /\ UNCHANGED <<entry, args, sink, png, canvas, outcome, history>>
    /\ UNCHANGED statVars

\* lines 258-267: one iteration of "for ch in text.upper()"
draw_text_char ==
    /\ pc = "draw_text"
    /\ draw.ch <= Len(draw.upper)
    /\ LET glyph == font_get(draw.upper[draw.ch])
           d == stamp_glyph(Drawing(canvas), glyph, 0, draw.x, draw.y, draw.color)
       IN  /\ canvas' = d.canvas
           /\ IF d.exc # "None"
              THEN /\ Finish(Raised(d.exc))
                   /\ UNCHANGED draw
              ELSE /\ draw' = [draw EXCEPT !.x = @ + advance(glyph), !.ch = @ + 1]
                   /\ UNCHANGED <<pc, outcome, history>>
    /\ UNCHANGED <<entry, args, sink, png, plot>>
    /\ UNCHANGED statVars

\* the loop of line 258 is exhausted: draw_text returns to the body
draw_text_return ==
    /\ pc = "draw_text"
    /\ draw.ch > Len(draw.upper)
    /\ draw' = NoDraw
    /\ pc' = "plot"
    /\ UNCHANGED <<entry, args, sink, png, canvas, plot, outcome, history>>
    /\ UNCHANGED statVars

\* the ranges and colors of the rectangles: range(y, y_stop) by range(x, x_stop)
RectSide == 2
RectXs == {-1, CanvasWidth - 1, CanvasWidth + 1}
RectYs == {-1, 1, CanvasHeight + 1}
BarColors == {<<70, 130, 180>>, <<46, 204, 113>>}

\* lines 285-287, 297-298, 303-304: the body starts the loops that fill a
\* rectangle, "for y in range(y, y_stop)" over "for x in range(x_start, x_stop)"
fallback_plot_fill ==
    /\ pc = "plot"
    /\ plot.calls < MaxDraws
    /\ \E x \in RectXs, y \in RectYs, color \in BarColors :
         plot' = [calls |-> plot.calls + 1, y |-> y, y_stop |-> y + RectSide,
                  x_start |-> x, x_stop |-> x + RectSide, color |-> color]
    /\ pc' = "fill"
    /\ UNCHANGED <<entry, args, sink, png, canvas, draw, outcome, history>>
    /\ UNCHANGED statVars

\* lines 286-289, 297-300, 303-306: one iteration of "for y in range(y, y_stop)"
fill_row ==
    /\ pc = "fill"
    /\ plot.y < plot.y_stop
    /\ LET d == fill_columns(Drawing(canvas), plot.x_start, plot.x_stop, plot.y, plot.color)
       IN  /\ canvas' = d.canvas
           /\ IF d.exc # "None"
              THEN /\ Finish(Raised(d.exc))
                   /\ UNCHANGED plot
              ELSE /\ plot' = [plot EXCEPT !.y = @ + 1]
                   /\ UNCHANGED <<pc, outcome, history>>
    /\ UNCHANGED <<entry, args, sink, png, draw>>
    /\ UNCHANGED statVars

\* the loop over y is exhausted: the body goes on
fill_exit ==
    /\ pc = "fill"
    /\ plot.y >= plot.y_stop
    /\ plot' = [NoPlot EXCEPT !.calls = plot.calls]
    /\ pc' = "plot"
    /\ UNCHANGED <<entry, args, sink, png, canvas, draw, outcome, history>>
    /\ UNCHANGED statVars

(***************************************************************************)
(* _student_t_coeff and _student_t_pdf, called one after the other.        *)
(***************************************************************************)
\* how many calls of _student_t_coeff and _student_t_pdf the caller makes
MaxCoeffCalls == 3
\* the df and x the caller passes
CoeffDfs == {Dyadic(1, 0), Dyadic(11, -2), FZero, Dyadic(-1, 0), FNaN}
PdfXs == {FZero, FOne}

\* the caller invokes _student_t_coeff(df)
Call_student_t_coeff ==
    /\ pc = "idle"
    /\ Len(history) < MaxCoeffCalls
    /\ \E dfv \in CoeffDfs : Call("_student_t_coeff", [df |-> dfv], "coeff")
    /\ UNCHANGED <<run, welch, frame>>
    /\ UNCHANGED imageVars

\* lines 108-113 behind lru_cache: a hit returns the stored value; a miss runs
\* the body, which raises or returns a value that is stored and returned
student_t_coeff_call ==
    /\ pc = "coeff"
    /\ IF coeff_call_raises(coeff_cache, args.df)
       THEN /\ Finish(Raised("ValueError"))
            /\ UNCHANGED coeff_cache
       ELSE /\ coeff_cache' = cache_after_coeff(coeff_cache, args.df)
            /\ Finish(Returned(coeff_cache'[args.df]))
    /\ UNCHANGED <<entry, args, imports, threads, sim, run, welch, frame, pdf_calls>>
    /\ UNCHANGED imageVars

\* the caller invokes _student_t_pdf(x, df)
Call_student_t_pdf ==
    /\ pc = "idle"
    /\ Len(history) < MaxCoeffCalls
    /\ \E xv \in PdfXs, dfv \in CoeffDfs :
         Call("_student_t_pdf", [x |-> xv, df |-> dfv], "pdf")
    /\ UNCHANGED <<run, welch, frame>>
    /\ UNCHANGED imageVars

\* lines 116-117: _student_t_coeff(df) * (1 + (x * x) / df) ** (-(df + 1) / 2)
student_t_pdf_call ==
    /\ pc = "pdf"
    /\ IF coeff_call_raises(coeff_cache, args.df)
       THEN /\ Finish(Raised("ValueError"))
            /\ UNCHANGED coeff_cache
       ELSE /\ coeff_cache' = cache_after_coeff(coeff_cache, args.df)
            /\ Finish(Returned(student_t_pdf(coeff_cache'[args.df], args.x, args.df)))
    /\ pdf_calls' = pdf_calls + 1
    /\ UNCHANGED <<entry, args, imports, threads, sim, run, welch, frame>>
    /\ UNCHANGED imageVars

(***************************************************************************)
(* Threads calling _student_t_coeff.  The wrapper of lru_cache looks the   *)
(* key up in its dict; on a miss it calls the function and then stores the *)
(* result under the key.  The lookup and the store are each one atomic     *)
(* dict operation; between them other threads run, so two threads can both *)
(* miss and both compute.                                                  *)
(***************************************************************************)
\* how many threads call _student_t_coeff
MaxThreads == 3
\* the df values the threads pass
ThreadDfs == {Dyadic(1, 0), Dyadic(11, -2), FZero, FNaN}

\* variant of the store that leaves the new entry alone in the dict
dict_setitem_alone(cache, key, value) == [k \in {key} |-> value]
\* cache[key] = value
dict_setitem(cache, key, value) ==
    [k \in DOMAIN cache \cup {key} |-> IF k = key THEN value ELSE cache[k]]

\* the thread t ends its call with the outcome out
thread_ends(t, out) ==
    /\ threads' = [threads EXCEPT ![t].pc = "done", ![t].outcome = out]
    /\ history' = Append(history, [fn |-> "_student_t_coeff",
                                   args |-> [df |-> threads[t].df], outcome |-> out])

\* a new thread calls _student_t_coeff(df)
Thread_student_t_coeff ==
    /\ pc = "idle"
    /\ Len(threads) < MaxThreads
    /\ \E dfv \in ThreadDfs :
         threads' = Append(threads, [pc |-> "lookup", df |-> dfv, result |-> FZero,
                                     outcome |-> NoOutcome])
    /\ UNCHANGED <<pc, entry, args, imports, sim, run, welch, frame, coeff_cache,
                   pdf_calls, outcome, history>>
    /\ UNCHANGED imageVars

\* lru_cache: the lookup of the key; a hit returns the stored value
lru_cache_lookup ==
    /\ \E t \in 1..Len(threads) :
         /\ threads[t].pc = "lookup"
         /\ IF threads[t].df \in DOMAIN coeff_cache
            THEN thread_ends(t, Returned(coeff_cache[threads[t].df]))
            ELSE /\ threads' = [threads EXCEPT ![t].pc = "call"]
                 /\ UNCHANGED history
    /\ UNCHANGED <<pc, entry, args, imports, sim, run, welch, frame, coeff_cache,
                   pdf_calls, outcome>>
    /\ UNCHANGED imageVars

\* lines 110-113, on a miss: the body raises, or returns the coefficient
lru_cache_call ==
    /\ \E t \in 1..Len(threads) :
         /\ threads[t].pc = "call"
         /\ IF student_t_coeff_raises(threads[t].df)
            THEN thread_ends(t, Raised("ValueError"))
            ELSE /\ threads' = [threads EXCEPT ![t].pc = "store",
                                               ![t].result = student_t_coeff_body(threads[t].df)]
                 /\ UNCHANGED history
    /\ UNCHANGED <<pc, entry, args, imports, sim, run, welch, frame, coeff_cache,
                   pdf_calls, outcome>>
    /\ UNCHANGED imageVars

\* lru_cache: the result is stored under the key and returned
lru_cache_store ==
    /\ \E t \in 1..Len(threads) :
         /\ threads[t].pc = "store"
         /\ coeff_cache' = dict_setitem(coeff_cache, threads[t].df, threads[t].result)
         /\ thread_ends(t, Returned(threads[t].result))
    /\ UNCHANGED <<pc, entry, args, imports, sim, run, welch, frame, pdf_calls, outcome>>
    /\ UNCHANGED imageVars

(***************************************************************************)
(* plot_uplift, and the imports that decide which code draws and tests.    *)
(***************************************************************************)
\* each of the optional libraries is installed or not
InitAllImports ==
    \E lib \in {"None", "scipy.stats"}, numpy \in {"None", "numpy"},
       pandas \in {"None", "pandas"}, seaborn \in BOOLEAN :
        InitImports(lib, numpy, pandas, seaborn)

\* the summaries the caller passes to plot_uplift
Summaries ==
    {<< >>,
     <<[metric |-> "engagement_rate", pre_mean |-> FHalf, post_mean |-> FOne,
        mean_change |-> FHalf, p_value |-> FZero]>>}

\* the caller invokes plot_uplift(records, summary)
Call_plot_uplift ==
    /\ pc = "idle"
    /\ Len(history) = 0
    /\ \E pre \in Blocks, rows \in Summaries :
         Call("plot_uplift",
              [records |-> block_records(pre, FALSE) \o block_records(pre, TRUE),
               summary |-> rows], "uplift")
    /\ UNCHANGED <<run, welch, frame>>
    /\ UNCHANGED imageVars

\* variant of the test that asks for seaborn alone
plotting_libraries_seaborn_only == HAS_SEABORN
\* line 325: HAS_SEABORN and pd is not None and np is not None
plotting_libraries == HAS_SEABORN /\ pd # "None" /\ np # "None"

\* lines 325 and 370: with the libraries the body of the if statement runs;
\* otherwise _fallback_plot(summary, output_path) is called, which creates
\* its canvas
plot_uplift_enter ==
    /\ pc = "uplift"
    /\ IF plotting_libraries
       THEN /\ pc' = "uplift_library"
            /\ UNCHANGED <<canvas, plot>>
       ELSE /\ pc' = "plot"
            /\ canvas' = create_canvas(CanvasWidth, CanvasHeight, White)
            /\ plot' = NoPlot
    /\ UNCHANGED <<entry, args, outcome, history, statVars, sink, png, draw>>

\* what the calls of pandas, numpy, seaborn and matplotlib do: the libraries
\* are not part of the program, the figure is saved or a call raises
LibraryOutcomes == {"saved", "Exception"}

\* lines 326-368: the libraries draw and save the figure; output_path is returned
plot_uplift_library ==
    /\ pc = "uplift_library"
    /\ \E r \in LibraryOutcomes :
         IF r = "saved" THEN Finish(Returned("output_path")) ELSE Finish(Raised(r))
    /\ UNCHANGED <<entry, args, statVars>>
    /\ UNCHANGED imageVars

(***************************************************************************)
(* simulate_user_metrics.  The random numbers are whatever the generator   *)
(* gives: any of a few values.                                             *)
(***************************************************************************)
\* the most users the caller asks for
MaxUsers == 4
\* what rng.betavariate and rng.gauss return
BetaVals == {Dyadic(1, -2), Dyadic(1, -1)}
GaussVals == {Dyadic(-1, 0), Dyadic(1, -3)}

\* the caller invokes simulate_user_metrics(n_users); line 46: half = n_users // 2
Call_simulate_user_metrics ==
    /\ pc = "idle"
    /\ Len(history) = 0
    /\ \E n \in (-1)..MaxUsers :
         /\ args' = [n_users |-> n]
         /\ sim' = [NoSim EXCEPT !.n_users = n, !.half = n \div 2, !.idx = 1]
    /\ entry' = "simulate_user_metrics"
    /\ pc' = "simulate_pre"
    /\ outcome' = NoOutcome
    /\ UNCHANGED <<imports, threads, run, welch, frame, coeff_cache, pdf_calls, history>>
    /\ UNCHANGED imageVars

\* lines 50-60: for idx in range(1, half + 1), a pre-launch record is appended;
\* after the loop the second loop starts at half + 1
simulate_pre ==
    /\ pc = "simulate_pre"
    /\ IF sim.idx <= sim.half
       THEN /\ \E engagement \in BetaVals, conversion \in BetaVals :
                 sim' = [sim EXCEPT !.records = Append(@, [user_id |-> sim.idx,
                                                           engagement_rate |-> engagement,
                                                           conversion_rate |-> conversion,
                                                           is_post_launch |-> FALSE]),
                                    !.idx = @ + 1]
            /\ UNCHANGED pc
       ELSE /\ sim' = [sim EXCEPT !.idx = sim.half + 1]
            /\ pc' = "simulate_post"
    /\ UNCHANGED <<entry, args, imports, threads, run, welch, frame, coeff_cache,
                   pdf_calls, outcome, history>>
    /\ UNCHANGED imageVars

\* lines 67-68: max(0.0, min(1.0, baseline + rng.gauss(...)))
rate_clamp(rate) == FMax(FZero, FMin(FOne, rate))

\* lines 62-79: for idx in range(half + 1, n_users + 1), the baseline is read
\* from records[base_idx], which raises IndexError past the end of the list,
\* and a post-launch record is appended; after the loop records is returned
simulate_post ==
    /\ pc = "simulate_post"
    /\ LET base_idx == sim.idx - (sim.half + 1)
       IN  IF sim.idx > sim.n_users
           THEN /\ Finish(Returned(sim.records))
                /\ UNCHANGED sim
           ELSE IF base_idx >= Len(sim.records)
           THEN /\ Finish(Raised("IndexError"))
                /\ sim' = [sim EXCEPT !.base_idx = base_idx]
           ELSE /\ \E g1 \in GaussVals, g2 \in GaussVals :
                     sim' = [sim EXCEPT
                               !.base_idx = base_idx,
                               !.records = Append(@,
                                   [user_id |-> sim.idx,
                                    engagement_rate |->
                                        rate_clamp(FAdd(sim.records[base_idx + 1].engagement_rate, g1)),
                                    conversion_rate |->
                                        rate_clamp(FAdd(sim.records[base_idx + 1].conversion_rate, g2)),
                                    is_post_launch |-> TRUE]),
                               !.idx = @ + 1]
                /\ UNCHANGED <<pc, outcome, history>>
    /\ UNCHANGED <<entry, args, imports, threads, run, welch, frame, coeff_cache, pdf_calls>>
    /\ UNCHANGED imageVars

(***************************************************************************)
(* The specifications: the caller uses one part of the module.             *)
(***************************************************************************)
NextCdf ==
    \/ Call_student_t_cdf
    \/ Call_student_t_cdf_mirrored
    \/ student_t_cdf_enter
    \/ student_t_cdf_total
    \/ SimpsonStep
    \/ SimpsonExit
SpecCdf == Init /\ [][NextCdf]_vars

NextPValue ==
    \/ Call_two_tailed_p_value
    \/ two_tailed_p_value_enter
    \/ student_t_cdf_enter
    \/ student_t_cdf_total
    \/ SimpsonStep
    \/ SimpsonExit
SpecPValue == Init /\ [][NextPValue]_vars

NextWelch ==
    \/ Call_manual_welchs_ttest
    \/ Call_manual_welchs_ttest_swapped
    \/ manual_welchs_ttest_enter
    \/ manual_welchs_ttest_se
    \/ manual_welchs_ttest_df
    \/ two_tailed_p_value_enter
    \/ student_t_cdf_enter
    \/ student_t_cdf_total
    \/ SimpsonStep
    \/ SimpsonExit
SpecWelch == Init /\ [][NextWelch]_vars

\* _manual_welchs_ttest up to its call of _two_tailed_p_value
NextDf ==
    \/ Call_manual_welchs_ttest_rates
    \/ manual_welchs_ttest_enter
    \/ manual_welchs_ttest_se
    \/ manual_welchs_ttest_df
SpecDf == Init /\ [][NextDf]_vars

NextRun ==
    \/ Call_run_analysis
    \/ Call_manual_welchs_ttest
    \/ run_analysis_metric
    \/ run_analysis_row
    \/ manual_welchs_ttest_enter
    \/ manual_welchs_ttest_se
    \/ manual_welchs_ttest_df
    \/ two_tailed_p_value_enter
    \/ student_t_cdf_enter
    \/ student_t_cdf_total
    \/ SimpsonStep
    \/ SimpsonExit
SpecRun == InitAnyLibs /\ [][NextRun]_vars

NextPng ==
    \/ Call_write_png
    \/ write_png_enter
    \/ write_png_row
    \/ write_png_open
    \/ write_png_ihdr
    \/ write_png_idat
    \/ write_png_iend
SpecPng == Init /\ [][NextPng]_vars

NextCoeff ==
    \/ Call_student_t_coeff
    \/ student_t_coeff_call
    \/ Call_student_t_pdf
    \/ student_t_pdf_call
SpecCoeff == Init /\ [][NextCoeff]_vars

NextThreads ==
    \/ Thread_student_t_coeff
    \/ lru_cache_lookup
    \/ lru_cache_call
    \/ lru_cache_store
SpecThreads == Init /\ [][NextThreads]_vars

\* run_analysis up to its call of the t-test, and plot_uplift up to its call
\* of _fallback_plot
NextPaths ==
    \/ Call_run_analysis
    \/ run_analysis_metric
    \/ run_analysis_row
    \/ Call_plot_uplift
    \/ plot_uplift_enter
    \/ plot_uplift_library
SpecPaths == InitAllImports /\ [][NextPaths]_vars

NextSimulate ==
    \/ Call_simulate_user_metrics
    \/ simulate_pre
    \/ simulate_post
SpecSimulate == Init /\ [][NextSimulate]_vars

NextPlot ==
    \/ Call_fallback_plot
    \/ fallback_plot_draw_text
    \/ draw_text_char
    \/ draw_text_return
    \/ fallback_plot_fill
    \/ fill_row
    \/ fill_exit
SpecPlot == Init /\ [][NextPlot]_vars

(***************************************************************************)
(* Properties.                                                             *)
(***************************************************************************)
\* the invoked function has ended
Completed == pc = "idle" /\ outcome.kind # "none"
\* _manual_welchs_ttest has been called in the running or the last invocation
WelchCalled ==
    \/ entry = "_manual_welchs_ttest"
    \/ entry = "run_analysis" /\ welch # NoWelch
\* a float in [0, 1]
InUnitInterval(a) == FLe(FZero, a) /\ FLe(a, FOne)
\* a float of magnitude below 2^(30 - ExpFloor), in units of 2^-ExpFloor
FUnits(a) == a.m * Pow2(a.e + ExpFloor)

\* C1: whenever _manual_welchs_ttest is called with a sample of fewer than two
\* observations, once its size check has run the invocation has ended with the
\* ValueError of the check and without a return value; this holds for a direct
\* call and for the call that run_analysis makes, whose caller gets that error.
C1_InsufficientSamples ==
    (/\ WelchCalled
     /\ Len(welch.sample_a) < 2 \/ Len(welch.sample_b) < 2
     /\ pc # "welch")
    => (/\ pc = "idle"
        /\ outcome = Raised("ValueError")
        /\ history[Len(history)] = [fn |-> entry, args |-> args,
                                    outcome |-> Raised("ValueError")])
\* C1 witness: run_analysis called _manual_welchs_ttest with a one-value sample
\* and ended with the ValueError
C1_Witness ==
    /\ entry = "run_analysis"
    /\ welch # NoWelch
    /\ Len(welch.sample_a) = 1 \/ Len(welch.sample_b) = 1
    /\ pc = "idle"
    /\ outcome = Raised("ValueError")

\* C2: when the standard error of a call of _manual_welchs_ttest is zero, the
\* call returns (0.0, 1.0) right after computing it: no exception, the lines
\* that divide by se and by the Satterthwaite denominator are never reached,
\* and neither _student_t_pdf nor _student_t_coeff has been called.
C2_ZeroStandardError ==
    (/\ entry = "_manual_welchs_ttest"
     /\ Len(welch.sample_a) >= 2 /\ Len(welch.sample_b) >= 2
     /\ pc \notin {"welch", "welch_se"}
     /\ welch.se.m = 0)
    => (/\ pc = "idle"
        /\ outcome = Returned(<<FZero, FOne>>)
        /\ pdf_calls = 0
        /\ DOMAIN coeff_cache = {}
        /\ frame = NoFrame)
\* C2 witness: two constant samples of different values gave se == 0 and (0.0, 1.0)
C2_Witness ==
    /\ entry = "_manual_welchs_ttest"
    /\ Completed
    /\ welch.se.m = 0
    /\ welch.mean1 # welch.mean2
    /\ outcome = Returned(<<FZero, FOne>>)

\* C3 (as claimed): every call of _two_tailed_p_value, for every t_stat and every
\* df, returns a value in [0, 1].
C3_PValueAlwaysReturned ==
    (entry = "_two_tailed_p_value" /\ Completed)
    => (outcome.kind = "return" /\ InUnitInterval(outcome.value))

\* C4 (as claimed): a call of _manual_welchs_ttest with two identical samples of
\* at least two values returns statistic 0.0 and p_value 1.0.
C4_IdenticalSamples ==
    (/\ entry = "_manual_welchs_ttest"
     /\ Completed
     /\ args.sample_a = args.sample_b
     /\ Len(args.sample_a) >= 2)
    => outcome = Returned(<<FZero, FOne>>)

C6_DenominatorNonZero ==
    (/\ entry = "_manual_welchs_ttest"
     /\ Len(welch.sample_a) >= 2 /\ Len(welch.sample_b) >= 2
     /\ pc \notin {"welch", "welch_se", "welch_df"}
     /\ welch.se.m # 0)
    => (welch.denominator.m # 0 /\ welch.df.m > 0)

\* C7: a call of _two_tailed_p_value with df <= 0 returns exactly 1.0 at once,
\* for every t_stat, without an exception.
C7_NonPositiveDf ==
    (/\ entry = "_two_tailed_p_value"
     /\ args.df.m <= 0
     /\ pc # "pvalue")
    => (pc = "idle" /\ outcome = Returned(FOne) /\ pdf_calls = 0)
\* C7 witness: a call with a negative df and a non-zero t_stat returned 1.0
C7_Witness ==
    /\ entry = "_two_tailed_p_value"
    /\ args.df.m < 0
    /\ args.t_stat.m # 0
    /\ Completed
    /\ outcome = Returned(FOne)

\* C8: a call _student_t_cdf(0, df) returns exactly 0.5 from its first line: no
\* Simpson step is taken, _student_t_pdf is never called and the coefficient
\* cache stays as it was.
C8_CdfAtZero ==
    (/\ entry = "_student_t_cdf"
     /\ args.x.m = 0
     /\ pc # "cdf")
    => (/\ pc = "idle"
        /\ outcome = Returned(FHalf)
        /\ pdf_calls = 0
        /\ DOMAIN coeff_cache = {})
\* C8 witness: a call with x == 0 and a positive df returned 0.5
C8_Witness ==
    /\ entry = "_student_t_cdf"
    /\ args.x.m = 0
    /\ args.df.m > 0
    /\ Completed
    /\ outcome = Returned(FHalf)

\* two successive calls _student_t_cdf(x, df) and _student_t_cdf(-x, df) that
\* both returned, as the k-th and the next entry of the history
MirroredPair(k) ==
    /\ k + 1 <= Len(history)
    /\ history[k].fn = "_student_t_cdf" /\ history[k + 1].fn = "_student_t_cdf"
    /\ history[k + 1].args.x = FNeg(history[k].args.x)
    /\ history[k + 1].args.df = history[k].args.df
    /\ history[k].outcome.kind = "return" /\ history[k + 1].outcome.kind = "return"
\* C9 (as claimed): _student_t_cdf(-x, df) equals 1 - _student_t_cdf(x, df).
C9_ExactSymmetry ==
    \A k \in 1..Len(history) :
        MirroredPair(k)
        => history[k + 1].outcome.value = FSub(FOne, history[k].outcome.value)
\* the running call _student_t_cdf(-x, df) is about to return a clamped value:
\* its integration gave a cdf above 1 or below 0
ClampedMirrorReturn ==
    /\ entry = "_student_t_cdf"
    /\ pc = "simpson" /\ frame.i >= frame.n_intervals
    /\ Len(history) >= 1
    /\ history[Len(history)].outcome.kind = "return"
    /\ FLt(FOne, cdf_from_total(frame)) \/ FLt(cdf_from_total(frame), FZero)
\* C9 (amended): _student_t_cdf(-x, df) and 1 - _student_t_cdf(x, df) differ by
\* at most the spacing of the floats below 1.0; they are equal when x == 0, and
\* when the integration result is clamped to 0.0 or 1.0.
C9_SymmetryWithinRounding ==
    /\ [](\A k \in 1..Len(history) :
            MirroredPair(k)
            => LET a == history[k].outcome.value
                   b == history[k + 1].outcome.value
               IN  /\ Abs(FUnits(a) + FUnits(b) - Pow2(ExpFloor))
                        <= Pow2(ExpFloor - Precision)
                   /\ history[k].args.x.m = 0 => b = FSub(FOne, a))
    /\ [][ClampedMirrorReturn
            => outcome' = Returned(FSub(FOne, history[Len(history)].outcome.value))]_vars
\* C9 witness: both calls of a mirrored pair with x # 0 returned, neither value clamped
C9_Witness ==
    /\ MirroredPair(1)
    /\ history[1].args.x.m # 0
    /\ history[1].outcome.value \notin {FZero, FOne, FHalf}

RECURSIVE Flatten(_)
\* the concatenation of a sequence of byte sequences
Flatten(ws) == IF ws = << >> THEN << >> ELSE Head(ws) \o Flatten(Tail(ws))
\* the bytes the output file holds
SinkBytes == Flatten(sink.writes)
\* the number that four bytes spell, big-endian
U32Value(b) == ((b[1] * 256 + b[2]) * 256 + b[3]) * 256 + b[4]
RECURSIVE ParseChunks(_)
\* a reader's view of the bytes after the signature: the chunks, each with the
\* type, data and CRC fields that its length field delimits; bytes that are no
\* whole chunk are reported as one chunk of type "malformed"
ParseChunks(b) ==
    IF b = << >> THEN << >>
    ELSE IF Len(b) < 12 \/ Len(b) < 12 + U32Value(SubSeq(b, 1, 4))
    THEN <<[type |-> "malformed", data |-> b, crc |-> << >>]>>
    ELSE LET n == U32Value(SubSeq(b, 1, 4))
         IN  <<[type |-> SubSeq(b, 5, 8), data |-> SubSeq(b, 9, 8 + n),
                crc |-> SubSeq(b, 9 + n, 12 + n)]>>
               \o ParseChunks(SubSeq(b, 13 + n, Len(b)))
\* the chunks of the output file
SinkChunks == ParseChunks(SubSeq(SinkBytes, 9, Len(SinkBytes)))
\* the sequence s begins the sequence t
IsPrefix(s, t) == Len(s) <= Len(t) /\ s = SubSeq(t, 1, Len(s))

\* C10: at every moment of a call of _write_png the output file holds nothing
\* or the 8-byte PNG signature followed by whole chunks whose types begin the
\* sequence IHDR, IDAT, IEND; when the call returns the file holds the
\* signature and exactly these three chunks, in this order, the IEND chunk
\* with empty data, and nothing after it.
C10_StreamOrder ==
    entry = "_write_png"
    => /\ SinkBytes # << >> => (Len(SinkBytes) >= 8 /\ SubSeq(SinkBytes, 1, 8) = PngSignature)
       /\ IsPrefix([i \in 1..Len(SinkChunks) |-> SinkChunks[i].type],
                   <<TypeIHDR, TypeIDAT, TypeIEND>>)
       /\ (Completed /\ outcome.kind = "return")
          => (/\ Len(SinkChunks) = 3
              /\ SinkChunks[3].type = TypeIEND
              /\ SinkChunks[3].data = << >>
              /\ sink.closed)
\* C10 witness: a call with a canvas of at least one pixel returned, having
\* written three chunks
C10_Witness ==
    /\ entry = "_write_png"
    /\ Completed
    /\ outcome.kind = "return"
    /\ png.height >= 1 /\ png.width >= 1
    /\ Len(sink.writes) = 4

\* the running or the last invocation is a call of _write_png that has opened
\* the file and written the IHDR chunk
HeaderWritten ==
    /\ entry = "_write_png"
    /\ \/ pc \in {"png_idat", "png_iend"}
       \/ Completed /\ outcome # Raised("ValueError")
\* the running or the last invocation is a call of _write_png that returned
PngReturned == entry = "_write_png" /\ Completed /\ outcome.kind = "return"

\* C11: every chunk that _write_png writes is 12 + n bytes long, where n is
\* the number its first four bytes spell big-endian: the length, the four
\* bytes of the type, n bytes of data, and four bytes that are the big-endian
\* CRC-32 of this chunk's own type bytes followed by its own data bytes. The
\* chunks are written with the types IHDR, IDAT, IEND in this order.
C11_ChunkEncoding ==
    entry = "_write_png"
    => \A i \in 2..Len(sink.writes) :
         LET w == sink.writes[i]
         IN  /\ Len(w) >= 12
             /\ Len(w) = 12 + U32Value(SubSeq(w, 1, 4))
             /\ SubSeq(w, 5, 8) = <<TypeIHDR, TypeIDAT, TypeIEND>>[i - 1]
             /\ SubSeq(w, Len(w) - 3, Len(w))
                  = WordBE(zlib_crc32(SubSeq(w, 5, Len(w) - 4)))
\* C11 witness: a call returned after writing three chunks, one of them an
\* IDAT chunk with the scanlines of four pixels as data and one with no data
C11_Witness ==
    /\ PngReturned
    /\ png.height = 2 /\ png.width = 2
    /\ Len(sink.writes) = 4
    /\ Len(sink.writes[3]) > 12 + 14
    /\ Len(sink.writes[4]) = 12

\* C12: the data of the IHDR chunk that _write_png writes are 13 bytes: four
\* bytes that spell big-endian the number of pixels of the rows of the canvas,
\* four bytes that spell big-endian the number of rows of the canvas, and the
\* bytes 8 (bit depth), 2 (color type), 0, 0, 0 (compression, filter, interlace).
C12_HeaderFields ==
    HeaderWritten
    => LET d == SinkChunks[1].data
       IN  /\ SinkChunks[1].type = TypeIHDR
           /\ Len(d) = 13
           /\ U32Value(SubSeq(d, 5, 8)) = Len(args.rgb_matrix)
           /\ \A r \in 1..Len(args.rgb_matrix) :
                U32Value(SubSeq(d, 1, 4)) = Len(args.rgb_matrix[r])
           /\ SubSeq(d, 9, 13) = <<8, 2, 0, 0, 0>>
\* C12 witness: the header of a canvas of two rows of one pixel has been written
C12_Witness ==
    /\ HeaderWritten
    /\ Len(args.rgb_matrix) = 2
    /\ Len(args.rgb_matrix[1]) = 1
    /\ SinkChunks[1].data = <<0, 0, 0, 1, 0, 0, 0, 2, 8, 2, 0, 0, 0>>

\* C13: when the rows of a canvas of H rows of W pixels have been laid out,
\* the buffer that _write_png compresses has H * (1 + 3 * W) bytes; counting
\* rows, pixels and offsets from 0, the byte at offset r * (1 + 3 * W) is the
\* filter byte 0 and the three bytes from offset r * (1 + 3 * W) + 1 + 3 * c
\* are the red, green and blue channel of the pixel c of the row r; the width
\* and the height that the IHDR chunk declares are W and H.
C13_ScanlineLayout ==
    (entry = "_write_png" /\ pc \in {"png_ihdr", "png_idat", "png_iend"})
    => LET H == Len(args.rgb_matrix)
           W == IF H = 0 THEN 0 ELSE Len(args.rgb_matrix[1])
           stride == 1 + 3 * W
       IN  /\ Len(png.raw_data) = H * stride
           /\ \A r \in 0..(H - 1) :
                /\ png.raw_data[r * stride + 1] = 0
                /\ \A c \in 0..(W - 1) : \A k \in 0..2 :
                     png.raw_data[r * stride + 1 + 3 * c + k + 1]
                       = args.rgb_matrix[r + 1][c + 1][k + 1]
           /\ pc \in {"png_idat", "png_iend"}
              => /\ U32Value(SubSeq(SinkChunks[1].data, 1, 4)) = W
                 /\ U32Value(SubSeq(SinkChunks[1].data, 5, 8)) = H
\* C13 witness: the buffer of a canvas of two rows of two pixels, the last
\* pixel of another color than the first, is about to be compressed
C13_Witness ==
    /\ entry = "_write_png"
    /\ pc = "png_idat"
    /\ Len(args.rgb_matrix) = 2
    /\ Len(args.rgb_matrix[1]) = 2
    /\ args.rgb_matrix[1][1] # args.rgb_matrix[2][2]
    /\ Len(png.raw_data) = 14

\* what a reader inflates from a zlib stream of one stored block
Inflate(z) == SubSeq(z, 8, 7 + z[4] + 256 * z[5])
\* the pixel grid a PNG reader decodes from the output file: the width and
\* height of IHDR, the inflated IDAT data without the filter byte of each row,
\* three bytes a pixel
Decoded ==
    LET W == U32Value(SubSeq(SinkChunks[1].data, 1, 4))
        H == U32Value(SubSeq(SinkChunks[1].data, 5, 8))
        raw == Inflate(SinkChunks[2].data)
    IN  [r \in 1..H |-> [c \in 1..W |->
            SubSeq(raw, (r - 1) * (1 + 3 * W) + 3 * (c - 1) + 2,
                        (r - 1) * (1 + 3 * W) + 3 * (c - 1) + 4)]]
\* C14: when _write_png returns for a canvas of at least one row and one
\* column, the file decodes to the canvas: the IHDR chunk declares bit depth
\* 8 and color type 2, the inflated IDAT data have a filter byte 0 and three
\* bytes a pixel for every row, and the grid of these pixels is the canvas. A
\* 2 x 2 canvas of (255, 0, 0) gives width 2, height 2 and four red pixels.
C14_RoundTrip ==
    (PngReturned /\ Len(args.rgb_matrix) >= 1 /\ Len(args.rgb_matrix[1]) >= 1)
    => /\ SubSeq(SinkChunks[1].data, 9, 10) = <<8, 2>>
       /\ Len(Inflate(SinkChunks[2].data))
            = Len(args.rgb_matrix) * (1 + 3 * Len(args.rgb_matrix[1]))
       /\ Decoded = args.rgb_matrix
       /\ args.rgb_matrix = <<<<<<255, 0, 0>>, <<255, 0, 0>>>>, <<<<255, 0, 0>>, <<255, 0, 0>>>>>>
          => /\ SubSeq(SinkChunks[1].data, 1, 8) = <<0, 0, 0, 2, 0, 0, 0, 2>>
             /\ \A r \in 1..2 : \A c \in 1..2 : Decoded[r][c] = <<255, 0, 0>>
\* C14 witness: _write_png returned for the 2 x 2 canvas of (255, 0, 0)
C14_Witness ==
    /\ PngReturned
    /\ args.rgb_matrix = <<<<<<255, 0, 0>>, <<255, 0, 0>>>>, <<<<255, 0, 0>>, <<255, 0, 0>>>>>>
    /\ Len(Decoded) = 2
\* C14 second case met: _write_png returned for a canvas whose rows hold two
\* pixels of different colors
C14_MixedRowReturned ==
    /\ PngReturned
    /\ Len(args.rgb_matrix) >= 1
    /\ Len(args.rgb_matrix[1]) = 2
    /\ args.rgb_matrix[1][1] # args.rgb_matrix[1][2]

\* the canvas of the call has no pixel: no row, or a row of no pixel
ZeroArea ==
    \/ Len(args.rgb_matrix) = 0
    \/ \E r \in 1..Len(args.rgb_matrix) : Len(args.rgb_matrix[r]) = 0

\* C15 (as claimed): a call of _write_png with a canvas of height 0, or with
\* rows of width 0, ends with an error raised to the caller, and no IHDR chunk
\* that declares width 0 or height 0 is written.
C15_ZeroAreaRejected ==
    (entry = "_write_png" /\ Completed /\ ZeroArea)
    => /\ outcome.kind = "raise"
       /\ ~ \E i \in 1..Len(SinkChunks) :
              /\ SinkChunks[i].type = TypeIHDR
              /\ \/ U32Value(SubSeq(SinkChunks[i].data, 1, 4)) = 0
                 \/ U32Value(SubSeq(SinkChunks[i].data, 5, 8)) = 0

\* C16 (as claimed): when a call of _write_png ends with an error, the file
\* holds no byte at all or the whole stream of signature, IHDR, IDAT and IEND,
\* never a part of it such as the signature and the IHDR chunk alone.
C16_NoTruncatedStream ==
    (entry = "_write_png" /\ Completed /\ outcome.kind = "raise")
    => \/ SinkBytes = << >>
       \/ /\ Len(SinkChunks) = 3
          /\ SinkChunks[3].type = TypeIEND

\* the pixel at column x of row y of the canvas cv, both counted from 0
Pixel(cv, x, y) == grid(cv)[y + 1][x + 1]
\* the canvas cv has CanvasHeight rows of CanvasWidth pixels
FullSize(cv) ==
    /\ Len(grid(cv)) = CanvasHeight
    /\ \A r \in 1..CanvasHeight : Len(grid(cv)[r]) = CanvasWidth
\* the next step is an iteration of the loop over the rows of a rectangle
FillRowStep == pc = "fill" /\ plot.y < plot.y_stop
\* the next step is an iteration of the loop over the characters of draw_text
DrawCharStep == pc = "draw_text" /\ draw.ch <= Len(draw.upper)
\* the character that the next iteration of draw_text looks up
NextChar == draw.upper[draw.ch]

\* C17: every iteration of the loops that fill the rectangle
\* range(x_start, x_stop) by range(y, y_stop) raises no error and goes on to
\* the next row; after it the pixels (x, y) of the row y of the iteration with
\* x_start <= x < x_stop, 0 <= x < width and 0 <= y < height have the fill
\* color and every other pixel of the canvas is what it was. So the loops set
\* exactly the pixels inside both the rectangle and the canvas, and a
\* rectangle outside the canvas changes nothing.
C17_FillClipped ==
    [][FillRowStep
       => /\ outcome'.kind # "raise"
          /\ pc' = "fill"
          /\ plot' = [plot EXCEPT !.y = @ + 1]
          /\ FullSize(canvas')
          /\ \A x \in 0..(CanvasWidth - 1), y \in 0..(CanvasHeight - 1) :
               Pixel(canvas', x, y)
                 = IF y = plot.y /\ plot.x_start <= x /\ x < plot.x_stop
                   THEN plot.color
                   ELSE Pixel(canvas, x, y)]_vars
\* C17 witness: the loops have filled, on a canvas that was drawn on before, a
\* rectangle that begins in the last column and above the first row: the last
\* pixel of the first row has the fill color, the last pixel of the last row
\* and the pixel before it in the first row have not
C17_Witness ==
    /\ pc = "fill"
    /\ plot.calls = 2
    /\ plot.y = plot.y_stop
    /\ plot.y_stop = RectSide - 1
    /\ plot.x_start = CanvasWidth - 1
    /\ plot.x_stop > CanvasWidth
    /\ Pixel(canvas, CanvasWidth - 1, 0) = plot.color
    /\ Pixel(canvas, CanvasWidth - 2, 0) # plot.color
    /\ Pixel(canvas, CanvasWidth - 1, CanvasHeight - 1) # plot.color
    /\ \E x \in 0..(CanvasWidth - 1), y \in 0..(CanvasHeight - 1) :
         Pixel(canvas, x, y) \notin {White, plot.color}

\* C18: an iteration of draw_text for a character of the upper-cased text
\* that is no key of FONT raises no error, changes no pixel of the canvas and
\* moves the cursor by the width of the glyph of " " plus 1, which is what
\* the iteration does for " ": the canvas and the cursor after it are those
\* that stamping the glyph of " " gives.
C18_UnsupportedIsBlank ==
    [][(DrawCharStep /\ NextChar \notin DOMAIN FONT)
       => /\ outcome'.kind # "raise"
          /\ pc' = "draw_text"
          /\ canvas' = canvas
          /\ canvas' = stamp_glyph(Drawing(canvas), FONT[" "], 0,
                                   draw.x, draw.y, draw.color).canvas
          /\ draw' = [draw EXCEPT !.x = @ + Len(FONT[" "][1]) + 1, !.ch = @ + 1]]_vars
\* C18 witness: draw_text("@1", 0, 0) has passed "@" on a white canvas: no
\* pixel is lit and the cursor is where it is after " " in draw_text(" 1", 0, 0)
C18_Witness ==
    /\ pc = "draw_text"
    /\ draw.text = <<"@", "1">>
    /\ draw.ch = 2
    /\ draw.y = 0
    /\ draw.x = Len(FONT[" "][1]) + 1
    /\ \A x \in 0..(CanvasWidth - 1), y \in 0..(CanvasHeight - 1) :
         Pixel(canvas, x, y) = White

Narrow == {"(", ")"}
Lit(g, x, y, px, py) ==
    \E gy \in 0..(Len(g) - 1) : \E gx \in 0..(Len(g[gy + 1]) - 1) :
        g[gy + 1][gx + 1] = "1" /\ x + gx = px /\ y + gy = py
\* C20: for every text and origin, negative or beyond an edge, no iteration
\* of draw_text raises an error; after it the canvas has its size, the pixels
\* (px, py) with 0 <= px < width and 0 <= py < height that a lit cell of the
\* glyph falls on have the color, and every other pixel is what it was: a lit
\* cell outside the canvas changes no pixel, on the opposite edge or elsewhere.
C20_DrawTextClipped ==
    [][DrawCharStep
       => /\ outcome'.kind # "raise"
          /\ pc' = "draw_text"
          /\ FullSize(canvas')
          /\ \A px \in 0..(CanvasWidth - 1), py \in 0..(CanvasHeight - 1) :
               Pixel(canvas', px, py)
                 = IF Lit(font_get(NextChar), draw.x, draw.y, px, py)
                   THEN draw.color
                   ELSE Pixel(canvas, px, py)]_vars
\* C20 witness: draw_text("10", -2, -2) has stamped "1", whose last row is
\* lit in three cells: its last cell is on the canvas at (0, 2), and the two
\* cells at px = -2 and px = -1 did not reach the right edge
C20_Witness ==
    /\ pc = "draw_text"
    /\ plot.calls = 1
    /\ draw.upper = <<"1", "0">>
    /\ draw.ch = 2
    /\ draw.x = 2 /\ draw.y = -2
    /\ Pixel(canvas, 0, 2) = Black
    /\ Pixel(canvas, CanvasWidth - 1, 2) = White
    /\ Pixel(canvas, CanvasWidth - 2, 2) = White
    /\ Pixel(canvas, 0, CanvasHeight - 1) = White

\* every pixel of the canvas cv is a list of 3 channels with values in 0..255
ByteTriples(cv) ==
    \A r \in 1..Len(grid(cv)) : \A c \in 1..Len(grid(cv)[r]) :
        /\ Len(grid(cv)[r][c]) = 3
        /\ \A k \in 1..3 : grid(cv)[r][c][k] \in 0..255
\* the rows of the canvas cv are list objects of their own
OwnRows(cv) ==
    \A r1 \in 1..Len(cv.rows) : \A r2 \in 1..Len(cv.rows) :
        r1 # r2 => cv.rows[r1] # cv.rows[r2]
\* the pixels of the rows of the canvas other than the rows lo..hi, counted
\* from 0, are after the step what they were before it
OtherRowsKept(lo, hi) ==
    \A y \in 0..(CanvasHeight - 1) :
        (y < lo \/ y > hi)
        => \A x \in 0..(CanvasWidth - 1) : Pixel(canvas', x, y) = Pixel(canvas, x, y)

\* C21: the canvas that _create_canvas(width, height, color) returns has
\* height rows of width pixels, all of the color; in every state that the
\* rectangle fills and the calls of draw_text reach from it, the canvas has
\* height rows of width pixels, every pixel 3 channels with values in 0..255,
\* and every row is a list of its own: an iteration that fills the row y
\* leaves the pixels of every other row as they were, and an iteration of
\* draw_text leaves the pixels of the rows outside y .. y + 4 as they were.
C21_CanvasShape ==
    /\ [](entry = "_fallback_plot"
          => /\ FullSize(canvas)
             /\ ByteTriples(canvas)
             /\ OwnRows(canvas)
             /\ (pc = "plot" /\ plot.calls = 0)
                => \A x \in 0..(CanvasWidth - 1), y \in 0..(CanvasHeight - 1) :
                     Pixel(canvas, x, y) = White)
    /\ [][/\ FillRowStep => OtherRowsKept(plot.y, plot.y)
          /\ DrawCharStep => OtherRowsKept(draw.y, draw.y + 4)]_vars
\* C21 witness: after a rectangle fill and a call of draw_text the canvas
\* holds pixels of the fill color, of the text color and of the color it was
\* created with
C21_Witness ==
    /\ entry = "_fallback_plot"
    /\ pc = "plot"
    /\ plot.calls = 2
    /\ \E x \in 0..(CanvasWidth - 1), y \in 0..(CanvasHeight - 1) :
         Pixel(canvas, x, y) = Black
    /\ \E x \in 0..(CanvasWidth - 1), y \in 0..(CanvasHeight - 1) :
         Pixel(canvas, x, y) \in BarColors
    /\ \E x \in 0..(CanvasWidth - 1), y \in 0..(CanvasHeight - 1) :
         Pixel(canvas, x, y) = White

RECURSIVE AdvanceSum(_, _)
\* the sum, over the first n characters of the upper-cased text, of the
\* width of the glyph of the character plus 1
AdvanceSum(chars, n) ==
    IF n = 0 THEN 0
    ELSE AdvanceSum(chars, n - 1) + Len(font_get(chars[n])[1]) + 1
\* where the text began, if the cursor is the origin plus the advances of the
\* characters stamped so far
CursorOrigin(d) == d.x - AdvanceSum(d.upper, d.ch - 1)

\* C22: a call of draw_text(text, x, y) iterates over the upper-cased text
\* (no lower-case letter is looked up: "a" is looked up as "A", "ß" as "S",
\* "S"), beginning with the cursor at x; the iteration for the k-th character
\* writes the color at (cursor + gx, y + gy) for every lit cell (gx, gy) of
\* its glyph that is on the canvas, and leaves text, y and color alone; the
\* cursor at the k-th character is x plus the sum over the characters before
\* it of the width of their glyph plus 1. The upper-cased text is its own
\* upper-cased form, so a text and its upper-cased form are rendered alike.
C22_CursorAndCase ==
    /\ [](pc = "draw_text"
          => /\ \A k \in 1..Len(draw.upper) :
                  \A i \in 1..Len(LowerCase) : draw.upper[k] # LowerCase[i]
             /\ draw.text = <<"a">> => draw.upper = <<"A">>
             /\ draw.text = <<"ß">> => draw.upper = <<"S", "S">>
             /\ draw.text = <<"j", ":">> => draw.upper = <<"J", ":">>
             /\ draw.text = <<"1", "0">> => draw.upper = draw.text
             /\ str_upper(draw.upper) = draw.upper
             /\ CursorOrigin(draw) \in TextXs)
    /\ [][/\ (pc = "plot" /\ pc' = "draw_text")
             => (draw'.ch = 1 /\ draw'.x \in TextXs /\ draw'.y \in TextYs)
          /\ DrawCharStep
             => /\ CursorOrigin(draw') = CursorOrigin(draw)
                /\ draw'.ch = draw.ch + 1
                /\ draw'.y = draw.y
                /\ draw'.text = draw.text
                /\ draw'.upper = draw.upper
                /\ draw'.color = draw.color
                /\ LET g == font_get(NextChar)
                   IN  \A gy \in 0..(Len(g) - 1) : \A gx \in 0..(Len(g[gy + 1]) - 1) :
                         (/\ g[gy + 1][gx + 1] = "1"
                          /\ draw.x + gx \in 0..(CanvasWidth - 1)
                          /\ draw.y + gy \in 0..(CanvasHeight - 1))
                         => Pixel(canvas', draw.x + gx, draw.y + gy) = draw.color]_vars
\* C22 witness: draw_text("a", 0, 0) has stamped the glyph of "A" on a white
\* canvas: its first row is " 1 " and its third row is "111", and the cursor
\* is at 4
C22_Witness ==
    /\ pc = "draw_text"
    /\ plot.calls = 1
    /\ draw.text = <<"a">>
    /\ draw.ch = 2
    /\ draw.x = 4 /\ draw.y = 0
    /\ Pixel(canvas, 0, 0) = White /\ Pixel(canvas, 1, 0) = Black /\ Pixel(canvas, 2, 0) = White
    /\ Pixel(canvas, 0, 2) = Black /\ Pixel(canvas, 1, 2) = Black /\ Pixel(canvas, 2, 2) = Black
\* C22 second witness: draw_text("(1", 0, 0) has stamped both characters, the
\* second with its corner at x = 3: its last row "111" is lit from (3, 4) on
C22_SecondGlyphAtCursor ==
    /\ pc = "draw_text"
    /\ plot.calls = 1
    /\ draw.text = <<"(", "1">>
    /\ draw.ch = 3
    /\ draw.x = 7 /\ draw.y = 0
    /\ Pixel(canvas, 2, 4) = White
    /\ Pixel(canvas, 3, 4) = Black /\ Pixel(canvas, 4, 4) = Black /\ Pixel(canvas, 5, 4) = Black

\* the next step is an iteration of the Simpson loop of _student_t_cdf
SimpsonIteration == pc = "simpson" /\ frame.i < frame.n_intervals
\* the next step leaves the Simpson loop of _student_t_cdf
SimpsonLeaves == pc = "simpson" /\ frame.i >= frame.n_intervals

\* C23: in a call _student_t_cdf(x, df) with x # 0 the number n of
\* subintervals is 1000 for |x| < 10 and 2000 otherwise, an even number, and
\* h is |x| / n; the pdf is evaluated at 0 and at |x| with weight 1 and then
\* once in each of the iterations i = 1 .. n - 1, at i * h, with weight 4 for
\* odd i and 2 for even i; the loop is left at i = n, after n + 1 evaluations
\* in all, and the call returns 0.5 + sign(x) * ((h / 3) * total), clamped to
\* [0, 1].
C23_SimpsonRule ==
    /\ []((entry = "_student_t_cdf" /\ pc = "simpson")
          => /\ frame.x = FAbs(args.x)
             /\ frame.sign = (IF FLt(FZero, args.x) THEN 1 ELSE -1)
             /\ frame.n_intervals = (IF FLt(frame.x, FromInt(10)) THEN 1000 ELSE 2000)
             /\ frame.n_intervals % 2 = 0
             /\ frame.h = FDiv(frame.x, FromInt(frame.n_intervals))
             /\ frame.i \in 1..frame.n_intervals
             /\ pdf_calls = frame.i + 1)
    /\ [][/\ (entry = "_student_t_cdf" /\ pc = "total" /\ pc' = "simpson")
             => frame'.total = FAdd(student_t_pdf(coeff_cache'[frame.df], FZero, frame.df),
                                    student_t_pdf(coeff_cache'[frame.df], frame.x, frame.df))
          /\ (entry = "_student_t_cdf" /\ SimpsonIteration)
             => /\ pc' = "simpson"
                /\ frame'.i = frame.i + 1
                /\ frame'.total
                     = FAdd(frame.total,
                            FMul(FromInt(IF frame.i % 2 = 1 THEN 4 ELSE 2),
                                 student_t_pdf(coeff_cache[frame.df],
                                               FMul(FromInt(frame.i), frame.h), frame.df)))
          /\ (entry = "_student_t_cdf" /\ SimpsonLeaves)
             => /\ frame.i = frame.n_intervals
                /\ pdf_calls = frame.n_intervals + 1
                /\ LET integral == FMul(FDiv(frame.h, FThree), frame.total)
                       cdf == FAdd(FHalf, IF frame.sign = 1 THEN integral ELSE FNeg(integral))
                   IN  outcome' = Returned(IF FLt(cdf, FZero) THEN FZero
                                           ELSE IF FLt(FOne, cdf) THEN FOne ELSE cdf)]_vars
\* C23 witness: a call with 0 < |x| < 10 and negative x is about to leave the
\* loop after 1000 subintervals, the last interior point having weight 4
C23_Witness ==
    /\ entry = "_student_t_cdf"
    /\ pc = "simpson"
    /\ frame.sign = -1
    /\ frame.n_intervals = 1000
    /\ frame.i = 1000
    /\ pdf_calls = 1001
    /\ frame.total.m > 0
\* C23 second witness: a call with |x| >= 10 is in the loop of 2000 subintervals
C23_FarWitness ==
    /\ entry = "_student_t_cdf"
    /\ pc = "simpson"
    /\ frame.n_intervals = 2000
    /\ frame.i = 2000

\* the next step is the lookup of _student_t_coeff(df) for a df that the cache holds
CacheHit == pc \in {"coeff", "pdf"} /\ args.df \in DOMAIN coeff_cache

\* C24: every value that the cache of _student_t_coeff holds is the value
\* that the body computes for its key; a call for a df that the cache holds
\* returns the stored value and leaves the cache as it is; and any two calls
\* of _student_t_coeff, or of _student_t_pdf, with the same arguments end
\* alike, whichever calls were made before them.
C24_MemoTransparent ==
    /\ [](/\ \A k \in DOMAIN coeff_cache : coeff_cache[k] = student_t_coeff_body(k)
          /\ \A i \in 1..Len(history) : \A j \in 1..Len(history) :
               (history[i].fn = history[j].fn /\ history[i].args = history[j].args)
               => history[i].outcome = history[j].outcome)
    /\ [][CacheHit
          => /\ coeff_cache' = coeff_cache
             /\ entry = "_student_t_coeff" => outcome' = Returned(coeff_cache[args.df])]_vars
\* C24 witness: _student_t_pdf was called for a df > 0, then a call for
\* another df returned, then the first call was repeated and found the
\* cache holding both
C24_Witness ==
    /\ pc = "idle"
    /\ Len(history) = 3
    /\ history[1].fn = "_student_t_pdf"
    /\ history[2].outcome.kind = "return"
    /\ history[2].args.df # history[1].args.df
    /\ history[3].fn = "_student_t_pdf"
    /\ history[3].args = history[1].args
    /\ FLt(FZero, history[1].args.df)
    /\ FLt(FZero, history[3].outcome.value)
    /\ DOMAIN coeff_cache = {history[1].args.df, history[2].args.df}

\* C24 for the callers: two calls of one function with the same arguments
\* have the same outcome, whatever the cache held when each was made
C24_SameCallSameOutcome ==
    \A i \in 1..Len(history) : \A j \in 1..Len(history) :
        (history[i].fn = history[j].fn /\ history[i].args = history[j].args)
        => history[i].outcome = history[j].outcome

\* the df values of the calls that have returned
EvaluatedDfs == {history[i].args.df : i \in {j \in 1..Len(history) : history[j].outcome.kind = "return"}}

\* df > 0 as Python compares floats: no comparison with NaN is true
GreaterThanZero(df) == ~FIsNaN(df) /\ FLt(FZero, df)

\* C29 as stated: every key of the cache of _student_t_coeff is greater than 0
C29_CachedKeysPositive == \A k \in DOMAIN coeff_cache : GreaterThanZero(k)
\* C29: over every sequence of calls of _student_t_coeff the cache only
\* grows: a call that raises leaves it unchanged, a call that returns adds at
\* most the entry of its own df, and no entry is removed or given another
\* value; the keys of the cache are the df values of the calls that have
\* returned, each of them greater than 0 or NaN.
C29_CacheOnlyGrows ==
    /\ [](/\ DOMAIN coeff_cache = EvaluatedDfs
          /\ Cardinality(DOMAIN coeff_cache) = Cardinality(EvaluatedDfs)
          /\ \A k \in DOMAIN coeff_cache : FIsNaN(k) \/ GreaterThanZero(k))
    /\ [][/\ \A k \in DOMAIN coeff_cache :
               k \in DOMAIN coeff_cache' /\ coeff_cache'[k] = coeff_cache[k]
          /\ coeff_cache' # coeff_cache
             => /\ pc \in {"coeff", "pdf"}
                /\ DOMAIN coeff_cache' = DOMAIN coeff_cache \cup {args.df}
          /\ outcome'.kind = "raise" => coeff_cache' = coeff_cache]_vars
\* C29 witness: a call for a df <= 0 has raised, between two calls for
\* different df values that returned, and the cache holds the two entries
C29_Witness ==
    /\ pc = "idle"
    /\ Len(history) = 3
    /\ history[1].outcome.kind = "return"
    /\ history[2].outcome.kind = "raise"
    /\ ~GreaterThanZero(history[2].args.df)
    /\ history[3].outcome.kind = "return"
    /\ history[3].args.df # history[1].args.df
    /\ Cardinality(DOMAIN coeff_cache) = 2
\* C29: a call for NaN has returned and NaN is a key of the cache
C29_NaNCached ==
    /\ pc = "idle"
    /\ \E k \in DOMAIN coeff_cache : FIsNaN(k) /\ FIsNaN(coeff_cache[k])

\* C25: when threads call _student_t_coeff concurrently, under every
\* interleaving of their lookups, computations and stores each call that
\* returns gives the coefficient of its own df and each call that raises is
\* one whose own df is rejected; every entry of the cache is the coefficient
\* of its key; and no step removes an entry or changes its value, so an entry
\* that one thread wrote is not lost by what another thread does.
C25_ThreadsShareCache ==
    /\ [](/\ \A k \in DOMAIN coeff_cache : coeff_cache[k] = student_t_coeff_body(k)
          /\ \A t \in 1..Len(threads) :
               /\ threads[t].outcome.kind = "return"
                  => /\ threads[t].outcome.value = student_t_coeff_body(threads[t].df)
                     /\ threads[t].df \in DOMAIN coeff_cache
               /\ threads[t].outcome.kind = "raise"
                  => student_t_coeff_raises(threads[t].df))
    /\ [][\A k \in DOMAIN coeff_cache :
            k \in DOMAIN coeff_cache' /\ coeff_cache'[k] = coeff_cache[k]]_vars
\* C25 witness: while the first thread is between its miss and its store, a
\* thread that started later has stored and returned the coefficient of
\* another df
C25_Witness ==
    /\ Len(threads) >= 2
    /\ threads[1].pc = "store"
    /\ threads[2].pc = "done"
    /\ threads[2].outcome.kind = "return"
    /\ threads[2].df # threads[1].df
    /\ DOMAIN coeff_cache = {threads[2].df}
\* C25: the threads of the witness have both returned and the cache holds
\* both entries
C25_BothStored ==
    /\ Len(threads) >= 2
    /\ threads[1].outcome.kind = "return"
    /\ threads[2].outcome.kind = "return"
    /\ threads[2].df # threads[1].df
    /\ history[1].args.df = threads[2].df
    /\ DOMAIN coeff_cache = {threads[1].df, threads[2].df}
\* C25: two threads have missed for the same df and both hold the computed
\* value to store
C25_BothMissed ==
    /\ Len(threads) >= 2
    /\ threads[1].pc = "store"
    /\ threads[2].pc = "store"
    /\ threads[1].df = threads[2].df

\* _fallback_plot is running for plot_uplift
FallbackCalled == entry = "plot_uplift" /\ pc = "plot" /\ canvas # NoCanvas
\* run_analysis is at the t-test of a metric: both groups have a user
AtTTest ==
    /\ pc = "run"
    /\ metric_values(args.records, Metrics[run.metric], FALSE) # << >>
    /\ metric_values(args.records, Metrics[run.metric], TRUE) # << >>

\* C26 as stated: a call of run_analysis that has ended has called
\* _manual_welchs_ttest if and only if stats is None, in every call one of the
\* two tests has run
C26_ManualIffNoSciPy ==
    (entry = "run_analysis" /\ pc \in {"idle", "welch"})
    => (welch # NoWelch <=> stats = "None")
\* C26: whenever run_analysis reaches the t-test of a metric, with users in
\* both periods, it calls _manual_welchs_ttest(post_values, pre_values) if
\* stats is None and otherwise takes the p-value from the library and makes no
\* call of _manual_welchs_ttest; with an empty period it raises
\* ZeroDivisionError before either test. plot_uplift calls _fallback_plot if
\* and only if seaborn with matplotlib, pandas or numpy is missing, and
\* otherwise runs the library code and never creates the canvas; every call
\* of plot_uplift takes exactly one of the two paths.
C26_CoreIffLibrariesAbsent ==
    /\ [][/\ AtTTest
             => /\ pc' = "welch" <=> stats = "None"
                /\ pc' = "run_row" <=> stats # "None"
                /\ pc' = "welch" => welch'.sample_a # << >> /\ welch'.sample_b # << >>
                /\ pc' = "run_row" => welch' = welch
          /\ (pc = "run" /\ ~AtTTest)
             => pc' = "idle" /\ outcome' = Raised("ZeroDivisionError") /\ welch' = welch
          /\ pc = "uplift"
             => /\ FallbackCalled' <=> ~(HAS_SEABORN /\ pd = "pandas" /\ np = "numpy")
                /\ pc' = "uplift_library" <=> ~FallbackCalled'
                /\ pc' = "uplift_library" => canvas' = NoCanvas]_vars
    /\ [](/\ entry = "run_analysis" /\ stats # "None" => welch = NoWelch
          /\ entry = "run_analysis" /\ welch # NoWelch => stats = "None"
          /\ entry = "plot_uplift" /\ pc = "uplift_library"
             => HAS_SEABORN /\ pd = "pandas" /\ np = "numpy" /\ canvas = NoCanvas
          /\ entry = "plot_uplift" /\ pc = "idle"
             => HAS_SEABORN /\ pd = "pandas" /\ np = "numpy" /\ canvas = NoCanvas
          /\ FallbackCalled => ~(HAS_SEABORN /\ pd = "pandas" /\ np = "numpy"))
\* C26 witness: with SciPy, numpy and pandas installed but seaborn missing,
\* plot_uplift has called _fallback_plot
C26_Witness ==
    /\ FallbackCalled
    /\ ~HAS_SEABORN
    /\ pd = "pandas"
    /\ np = "numpy"
    /\ stats = "scipy.stats"
\* C26: without SciPy run_analysis has called _manual_welchs_ttest for the
\* first metric
C26_ManualCalled ==
    /\ entry = "run_analysis"
    /\ pc = "welch"
    /\ stats = "None"
    /\ Len(welch.sample_a) = 2
\* C26: with SciPy run_analysis has returned both rows without a call of
\* _manual_welchs_ttest
C26_LibraryTestUsed ==
    /\ entry = "run_analysis"
    /\ pc = "idle"
    /\ outcome.kind = "return"
    /\ Len(outcome.value) = 2
    /\ welch = NoWelch
\* C26: with every plotting library installed plot_uplift has returned the path
C26_LibraryPlotUsed ==
    /\ entry = "plot_uplift"
    /\ outcome = Returned("output_path")
    /\ canvas = NoCanvas

\* C26 for whole calls of run_analysis: with the library no call has made
\* _manual_welchs_ttest run, for either metric
C26_RunTakesOnePath ==
    /\ entry = "run_analysis" /\ stats # "None" => welch = NoWelch /\ frame = NoFrame
    /\ entry = "run_analysis" /\ pc \notin {"idle", "run", "run_row"} => stats = "None"

\* _manual_welchs_ttest has computed the Satterthwaite df (line 102)
DfComputed ==
    /\ WelchCalled
    /\ pc \notin {"welch", "welch_se", "welch_df"}
    /\ welch.n1 >= 2 /\ welch.n2 >= 2
    /\ welch.se.m # 0
    /\ welch.denominator.m # 0
\* a float with all Precision bits: not zero and above the underflow range
NormalFloat(a) == Abs(a.m) >= Pow2(Precision - 1)
\* the term of the sample (variance v, n values) in the denominator of the df
\* is computed without underflow: v / n, its square and the quotient by n - 1
\* are normal floats, or v is 0
TermInNormalRange(v, n) ==
    \/ v.m = 0
    \/ /\ NormalFloat(FDiv(v, FromInt(n)))
       /\ NormalFloat(FMul(FDiv(v, FromInt(n)), FDiv(v, FromInt(n))))
       /\ NormalFloat(FDiv(FMul(FDiv(v, FromInt(n)), FDiv(v, FromInt(n))), FromInt(n - 1)))
DfInNormalRange ==
    TermInNormalRange(welch.var1, welch.n1) /\ TermInNormalRange(welch.var2, welch.n2)
\* k less, and k more, eight rounding errors of relative size 2^-Precision
BelowByRounding(k) == Dyadic(k * (Pow2(Precision - 3) - 1), 3 - Precision)
AboveByRounding(k) == Dyadic(k * (Pow2(Precision - 3) + 1), 3 - Precision)

\* C27 as stated: whenever the df is computed,
\* min(n_a - 1, n_b - 1) <= df <= n_a + n_b - 2
C27_DfWithinBounds ==
    DfComputed
    => /\ FLe(FromInt(Min(welch.n1 - 1, welch.n2 - 1)), welch.df)
       /\ FLe(welch.df, FromInt(welch.n1 + welch.n2 - 2))
\* C27: whenever the df is computed and no operation of lines 100-101
\* underflows, it lies between min(n_a - 1, n_b - 1) and n_a + n_b - 2 up to
\* the rounding of the float operations of lines 100-102: it is not below the
\* lower bound nor above the upper bound by more than eight rounding errors.
C27_DfWithinRoundedBounds ==
    (DfComputed /\ DfInNormalRange)
    => /\ FLe(BelowByRounding(Min(welch.n1 - 1, welch.n2 - 1)), welch.df)
       /\ FLe(welch.df, AboveByRounding(welch.n1 + welch.n2 - 2))
\* C27 witness: without underflow a df strictly between the bounds was
\* computed from samples of different sizes and variances, and passed on
C27_Witness ==
    /\ DfComputed
    /\ DfInNormalRange
    /\ pc = "pvalue"
    /\ welch.n1 # welch.n2
    /\ welch.var1.m # 0 /\ welch.var2.m # 0 /\ welch.var1 # welch.var2
    /\ FLt(FromInt(Min(welch.n1 - 1, welch.n2 - 1)), welch.df)
    /\ FLt(welch.df, FromInt(welch.n1 + welch.n2 - 2))
    /\ frame.df = welch.df
\* C27: without underflow a df above n_a + n_b - 2 was computed
C27_AboveUpperBound ==
    /\ DfComputed
    /\ DfInNormalRange
    /\ FLt(FromInt(welch.n1 + welch.n2 - 2), welch.df)

\* the calls k and k + 1 are _manual_welchs_ttest(A, B) and
\* _manual_welchs_ttest(B, A)
SwappedPair(k) ==
    /\ k + 1 <= Len(history)
    /\ history[k].fn = "_manual_welchs_ttest" /\ history[k + 1].fn = "_manual_welchs_ttest"
    /\ history[k + 1].args.sample_a = history[k].args.sample_b
    /\ history[k + 1].args.sample_b = history[k].args.sample_a

\* C28 as stated: if _manual_welchs_ttest(A, B) returns (t, p) then
\* _manual_welchs_ttest(B, A) returns (-t, p)
C28_SwapExact ==
    \A k \in 1..Len(history) :
        (SwappedPair(k) /\ history[k].outcome.kind = "return")
        => history[k + 1].outcome
             = Returned(<<FNeg(history[k].outcome.value[1]), history[k].outcome.value[2]>>)
\* C28: swapping the two samples negates the statistic exactly and changes
\* the p-value by no more than two spacings of the floats below 1.0: if
\* _manual_welchs_ttest(A, B) returns (t, p) then _manual_welchs_ttest(B, A)
\* returns (-t, p') with |p' - p| <= 2 * 2^-Precision, and p' = p when t = 0;
\* if the one raises an exception so does the other, the same one.
C28_SwapSymmetry ==
    \A k \in 1..Len(history) :
        SwappedPair(k)
        => LET a == history[k].outcome
               b == history[k + 1].outcome
           IN  /\ a.kind = b.kind
               /\ a.kind = "raise" => b = a
               /\ a.kind = "return"
                  => /\ Len(b.value) = 2
                     /\ b.value[1] = FNeg(a.value[1])
                     /\ Abs(FUnits(b.value[2]) - FUnits(a.value[2]))
                          <= Pow2(ExpFloor + 1 - Precision)
                     /\ a.value[1].m = 0 => b.value[2] = a.value[2]
\* C28 witness: both calls of a swapped pair returned, with a statistic that
\* is not zero and a p-value strictly between 0 and 1
C28_Witness ==
    /\ pc = "idle"
    /\ SwappedPair(1)
    /\ history[1].outcome.kind = "return"
    /\ history[2].outcome.kind = "return"
    /\ history[1].outcome.value[1].m > 0
    /\ history[1].args.sample_a # history[1].args.sample_b
    /\ history[2].outcome.value[2] \notin {FZero, FOne}
\* C28: the p-values of a swapped pair differ
C28_PValuesDiffer ==
    /\ pc = "idle"
    /\ SwappedPair(1)
    /\ history[1].outcome.kind = "return"
    /\ history[2].outcome.kind = "return"
    /\ history[2].outcome.value[2] # history[1].outcome.value[2]

\* the next step is an iteration of the second loop of simulate_user_metrics
PostIteration == pc = "simulate_post" /\ sim.idx <= sim.n_users
\* the records are those of n users: user_id 1..n in order, the first n // 2
\* pre-launch and the others post-launch
RecordsOfUsers(records, n) ==
    /\ Len(records) = n
    /\ \A i \in 1..Len(records) :
         /\ records[i].user_id = i
         /\ records[i].is_post_launch = (i > n \div 2)

\* C30 as stated: for every n_users >= 0 simulate_user_metrics returns
\* n_users records with user_id 1..n_users in order, the first n_users // 2
\* pre-launch and the rest post-launch, and every iteration of the second loop
\* finds its baseline record, a pre-launch one.
C30_RecordsAndBaselines ==
    /\ []((entry = "simulate_user_metrics" /\ Completed /\ args.n_users >= 0)
          => (outcome.kind = "return" /\ RecordsOfUsers(outcome.value, args.n_users)))
    /\ [][(PostIteration /\ args.n_users >= 0)
          => /\ outcome'.kind # "raise"
             /\ sim'.base_idx < Len(sim.records)
             /\ ~sim.records[sim'.base_idx + 1].is_post_launch]_vars
\* C30 for an even n_users >= 0: the call returns the n_users records and
\* every baseline is the pre-launch record of the user idx - half
C30_EvenUsers ==
    /\ []((entry = "simulate_user_metrics" /\ Completed
           /\ args.n_users >= 0 /\ args.n_users % 2 = 0)
          => (outcome.kind = "return" /\ RecordsOfUsers(outcome.value, args.n_users)))
    /\ [][(PostIteration /\ args.n_users >= 0 /\ args.n_users % 2 = 0)
          => /\ outcome'.kind # "raise"
             /\ sim'.base_idx < Len(sim.records)
             /\ sim.records[sim'.base_idx + 1].user_id = sim.idx - sim.half
             /\ ~sim.records[sim'.base_idx + 1].is_post_launch]_vars
\* C30: simulate_user_metrics(1) has raised IndexError
C30_IndexError ==
    /\ entry = "simulate_user_metrics"
    /\ args.n_users = 1
    /\ outcome = Raised("IndexError")
\* C30: simulate_user_metrics(3) has returned three records, the last of them
\* made from the record of user 2, which is a post-launch record
C30_PostLaunchBaseline ==
    /\ entry = "simulate_user_metrics"
    /\ args.n_users = 3
    /\ outcome.kind = "return"
    /\ Len(outcome.value) = 3
    /\ sim.base_idx = 1
    /\ outcome.value[sim.base_idx + 1].is_post_launch

\* C27: with an underflow in the terms a df outside the bounds was computed
C27_OutsideByUnderflow ==
    /\ DfComputed
    /\ ~DfInNormalRange
    /\ \/ FLt(FromInt(welch.n1 + welch.n2 - 2), welch.df)
       \/ FLt(welch.df, FromInt(Min(welch.n1 - 1, welch.n2 - 1)))
====
